---- MODULE Spec2Model ----
(***************************************************************************)
(* A model of vimeo/go-taglog: the tag store (Tags), the Logger with its   *)
(* formatter (Loutput), and the plain-format line Parser.                  *)
(*                                                                         *)
(* Strings are sequences of one-character strings, so that rendering,      *)
(* sorting and scanning work on characters as the Go code does on bytes.   *)
(* A []string is a slice header (array, len) over a backing array kept in  *)
(* `heap`; the length of the array is the slice's capacity.                *)
(***************************************************************************)
EXTENDS Integers, Sequences, FiniteSets, TLC

VARIABLES
    heap,   \* backing arrays of the []string values: array id -> cells
    t,      \* a stand-alone Tags store (key -> string | []string)
    lg,     \* the Logger instances: name -> Logger struct
    p,      \* the Parser: params and aggregate tags
    last    \* the call that was made last: its arguments, result and writes

vars == <<heap, t, lg, p, last>>

----------------------------------------------------------------------------
(* Bounds of the model *)

\* the most values a tag store may hold, over all its keys
MaxVals == 3

----------------------------------------------------------------------------
(* Characters and strings *)

\* the characters in use, in ascending byte order
AsciiOrder ==
    << "\n", " ", "\"", ",", "-", ".", "/",
       "0", "1", "2", "3", "4", "5", "6", "7", "8", "9", ":", "=",
       "A", "B", "C", "D", "E", "F", "G", "H", "I", "J", "K", "L", "M",
       "N", "O", "P", "Q", "R", "S", "T", "U", "V", "W", "X", "Y", "Z",
       "[", "\\", "]", "_",
       "a", "b", "c", "d", "e", "f", "g", "h", "i", "j", "k", "l", "m",
       "n", "o", "p", "q", "r", "s", "t", "u", "v", "w", "x", "y", "z",
       "{", "}" >>

Chars == {AsciiOrder[i] : i \in 1..Len(AsciiOrder)}

\* the byte value order of a character
Ord == [c \in Chars |-> CHOOSE i \in 1..Len(AsciiOrder) : AsciiOrder[i] = c]

\* Go's string comparison a < b: bytewise lexicographic
RECURSIVE StrLess(_, _)
StrLess(a, b) ==
    IF b = <<>> THEN FALSE
    ELSE IF a = <<>> THEN TRUE
    ELSE IF Head(a) = Head(b) THEN StrLess(Tail(a), Tail(b))
    ELSE Ord[Head(a)] < Ord[Head(b)]

\* strings.ToUpper on one character
UpperChar(c) ==
    IF Ord[c] >= Ord["a"] /\ Ord[c] <= Ord["z"]
    THEN AsciiOrder[Ord[c] - Ord["a"] + Ord["A"]]
    ELSE c

\* strings.ToUpper
ToUpper(s) == [i \in 1..Len(s) |-> UpperChar(s[i])]

\* strings.Join
RECURSIVE Join(_, _)
Join(parts, sep) ==
    IF parts = <<>> THEN <<>>
    ELSE IF Len(parts) = 1 THEN parts[1]
    ELSE parts[1] \o sep \o Join(Tail(parts), sep)

\* strings.HasPrefix
HasPrefix(s, pre) == Len(s) >= Len(pre) /\ SubSeq(s, 1, Len(pre)) = pre

\* strings.TrimPrefix
TrimPrefix(s, pre) == IF HasPrefix(s, pre) THEN SubSeq(s, Len(pre) + 1, Len(s)) ELSE s

\* strings.Split(s, sep) for a one-character separator
RECURSIVE SplitFrom(_, _, _)
SplitFrom(s, sep, cur) ==
    IF s = <<>> THEN <<cur>>
    ELSE IF Head(s) = sep THEN <<cur>> \o SplitFrom(Tail(s), sep, <<>>)
    ELSE SplitFrom(Tail(s), sep, Append(cur, Head(s)))

Split(s, sep) == SplitFrom(s, sep, <<>>)

\* strings.TrimLeft(s, " ")
RECURSIVE TrimLeftSpace(_)
TrimLeftSpace(s) ==
    IF s # <<>> /\ Head(s) = " " THEN TrimLeftSpace(Tail(s)) ELSE s

\* the key of the global tags
KTags == <<"t", "a", "g", "s">>
KMsg == <<"m", "s", "g">>
KTimestamp == <<"t", "i", "m", "e", "s", "t", "a", "m", "p">>
KLevel == <<"l", "e", "v", "e", "l">>

----------------------------------------------------------------------------
(* Maps *)

MapSet(f, k, v) == [x \in (DOMAIN f) \cup {k} |-> IF x = k THEN v ELSE f[x]]

MapDel(f, k) == [x \in (DOMAIN f) \ {k} |-> f[x]]

EmptyMap == [x \in {} |-> <<>>]

----------------------------------------------------------------------------
(* The tag store: type Tags map[string]interface{}                         *)
(* Every operation takes and returns a pair [h, t] of heap and map.        *)

NoArr == <<>>

\* a tag value holding a string
StrVal(s) == [kind |-> "string", s |-> s, arr |-> NoArr, len |-> 0]

\* a tag value holding a []string: a slice of the first n cells of array a
SliceVal(a, n) == [kind |-> "slice", s |-> <<>>, arr |-> a, len |-> n]

\* a tag value holding a []interface{}, as json.Unmarshal makes for a JSON
\* array: its elements are held in s
IfaceVal(vals) == [kind |-> "iface", s |-> vals, arr |-> NoArr, len |-> Len(vals)]

\* a fresh array for a value of `key`
NewArr(h, key) ==
    LET free(n) == <<key, n>> \notin DOMAIN h
    IN  <<key, CHOOSE n \in 1..(Cardinality(DOMAIN h) + 1) :
                 free(n) /\ \A m \in 1..(n - 1) : ~free(m)>>

\* capacity of the array that append allocates when a full slice of
\* capacity c grows by one element
GrowCap(c) == 2 * c

\* the elements of a slice
Elems(h, v) == SubSeq(h[v.arr], 1, v.len)

\* append(vs, v) for a []string vs: in place when capacity allows
GoAppend(h, key, vs, v) ==
    IF vs.len < Len(h[vs.arr])
    THEN [h |-> [h EXCEPT ![vs.arr][vs.len + 1] = v],
          v |-> SliceVal(vs.arr, vs.len + 1)]
    ELSE LET a == NewArr(h, key)
             cells == [i \in 1..GrowCap(Len(h[vs.arr])) |->
                          IF i <= vs.len THEN h[vs.arr][i]
                          ELSE IF i = vs.len + 1 THEN v ELSE <<>>]
         IN  [h |-> MapSet(h, a, cells), v |-> SliceVal(a, vs.len + 1)]

\* one iteration of the loop of Tags.Add
Add1(S, key, v) ==
    IF key \notin DOMAIN S.t
    THEN [h |-> S.h, t |-> MapSet(S.t, key, StrVal(v))]
    ELSE LET cur == S.t[key] IN
         IF cur.kind = "string"
         THEN LET a == NewArr(S.h, key)
              IN  [h |-> MapSet(S.h, a, <<cur.s, v>>),
                   t |-> MapSet(S.t, key, SliceVal(a, 2))]
         ELSE IF cur.kind = "slice"
         THEN LET r == GoAppend(S.h, key, cur, v)
              IN  [h |-> r.h, t |-> MapSet(S.t, key, r.v)]
         ELSE S

\* Tags.Add
RECURSIVE TagsAdd(_, _, _)
TagsAdd(S, key, value) ==
    IF value = <<>> THEN S
    ELSE TagsAdd(Add1(S, key, Head(value)), key, Tail(value))

\* Tags.GetAll
TagsGetAll(S, key) ==
    IF key \notin DOMAIN S.t THEN <<>>
    ELSE IF S.t[key].kind = "string" THEN <<S.t[key].s>>
    ELSE IF S.t[key].kind = "slice" THEN Elems(S.h, S.t[key])
    ELSE <<>>

\* Tags.Get
TagsGet(S, key) ==
    IF key \notin DOMAIN S.t THEN <<>>
    ELSE IF S.t[key].kind = "string" THEN S.t[key].s
    ELSE IF S.t[key].kind = "slice" THEN Elems(S.h, S.t[key])[1]
    ELSE <<>>

\* the values of a sequence as a set
Range(s) == {s[i] : i \in 1..Len(s)}

\* Merge1 without the search for the value: every value is added
Merge1NoSearch(S, key, v) == TagsAdd(S, key, <<v>>)

\* one iteration of the loop of Tags.Merge
Merge1(S, key, v) ==
    IF v \in Range(TagsGetAll(S, key)) THEN S ELSE TagsAdd(S, key, <<v>>)

\* Tags.Merge
RECURSIVE TagsMerge(_, _, _)
TagsMerge(S, key, value) ==
    IF value = <<>> THEN S
    ELSE TagsMerge(Merge1(S, key, Head(value)), key, Tail(value))

\* Tags.Push
TagsPush(S, key, value) == TagsAdd(S, key, value)

\* Tags.Del
TagsDel(S, key) == [h |-> S.h, t |-> MapDel(S.t, key)]

\* Tags.Pop without the case of two elements: the sequence is cut to one
TagsPopNoCollapse(S, key) ==
    IF key \notin DOMAIN S.t THEN S
    ELSE LET vs == S.t[key] IN
         IF vs.kind = "string" THEN TagsDel(S, key)
         ELSE IF vs.len <= 1 THEN TagsDel(S, key)
         ELSE [h |-> S.h, t |-> MapSet(S.t, key, SliceVal(vs.arr, vs.len - 1))]

\* Tags.Pop with the two-element case taken for the one-element case
TagsPopOffByOne(S, key) ==
    IF key \notin DOMAIN S.t THEN S
    ELSE LET vs == S.t[key] IN
         IF vs.kind = "string" THEN TagsDel(S, key)
         ELSE IF vs.len <= 2 THEN TagsDel(S, key)
         ELSE [h |-> S.h, t |-> MapSet(S.t, key, SliceVal(vs.arr, vs.len - 1))]

\* Tags.Pop
TagsPop(S, key) ==
    IF key \notin DOMAIN S.t THEN S
    ELSE LET vs == S.t[key] IN
         IF vs.kind = "string" THEN TagsDel(S, key)
         ELSE IF vs.kind # "slice" THEN S
         ELSE IF vs.len <= 1 THEN TagsDel(S, key)
         ELSE IF vs.len = 2
              THEN [h |-> S.h, t |-> MapSet(S.t, key, StrVal(S.h[vs.arr][1]))]
              ELSE [h |-> S.h, t |-> MapSet(S.t, key, SliceVal(vs.arr, vs.len - 1))]

\* Tags.Set
TagsSet(S, key, value) == TagsAdd(TagsDel(S, key), key, value)

\* Tags.DelAll
TagsDelAll(S) == [h |-> S.h, t |-> EmptyMap]

\* Tags.Export: map[string][]string with copies of the sequences
TagsExport(S) ==
    [k \in {x \in DOMAIN S.t : S.t[x].kind \in {"string", "slice"}} |-> TagsGetAll(S, k)]

\* Tags.Import: Merge of every entry; the keys are visited in any order and
\* an entry only touches the value and the arrays of its own key
RECURSIVE ImportKeys(_, _, _)
ImportKeys(S, tags, keys) ==
    IF keys = {} THEN S
    ELSE LET k == CHOOSE x \in keys : TRUE
         IN  ImportKeys(TagsMerge(S, k, tags[k]), tags, keys \ {k})

TagsImport(S, tags) == ImportKeys(S, tags, DOMAIN tags)

\* Tags.Copy: a new map, filled by Import(Export())
TagsCopy(S) == TagsImport([h |-> S.h, t |-> EmptyMap], TagsExport(S))

\* the arrays a store refers to
Arrays(tags) == {tags[k].arr : k \in {x \in DOMAIN tags : tags[x].kind = "slice"}}

\* garbage collection: only the arrays that some store refers to stay
Collect(h, live) == [a \in (DOMAIN h) \cap live |-> h[a]]

----------------------------------------------------------------------------
(* Calls on a stand-alone Tags store *)

\* the stand-alone store with the heap it lives in
Cur == [h |-> heap, t |-> t]

RECURSIVE SumLen(_, _)
SumLen(m, keys) ==
    IF keys = {} THEN 0
    ELSE LET k == CHOOSE x \in keys : TRUE
         IN  Len(m[k]) + SumLen(m, keys \ {k})

\* the number of values a store holds
NumVals(S) == SumLen(TagsExport(S), DOMAIN S.t)

\* no call yet.  A call is recorded with its name (op), the logger it was made
\* on (who), its arguments (key, vals, arg, level, s), the store (before) and
\* the params (old) it found, what it returned (ret, err), the byte strings
\* it handed to Write (wrote), and two facts about all calls so far: only
\* Add and Set were called (pure), SetTimestampFormat was called (custom)
NoCall ==
    [op |-> "none", who |-> "", key |-> <<>>, vals |-> <<>>, arg |-> EmptyMap,
     level |-> <<>>, s |-> <<>>, before |-> EmptyMap, old |-> EmptyMap,
     ret |-> EmptyMap, err |-> FALSE, wrote |-> <<>>, pure |-> TRUE, custom |-> FALSE]

\* the keys, values, argument lists and maps the calls are made with
TagKeys == {<<"k">>, <<"j">>}

TagValues == {<<"a">>, <<"b">>}

TagArgs ==
    {<<>>} \cup {<<v>> : v \in TagValues}
           \cup {<<<<"a">>, v>> : v \in TagValues}

TagMaps ==
    { [k \in {<<"k">>} |-> << <<"a">>, <<"b">> >>],
      [k \in {<<"k">>} |-> << <<"b">>, <<"b">> >>],
      [k \in {<<"k">>, <<"j">>} |-> IF k = <<"k">> THEN <<>> ELSE << <<"a">> >>] }

\* the store becomes S2 by a call op(key, vals) or op(arg) that returns ret
TagsCall(op, key, vals, arg, S2, ret) ==
    /\ NumVals(S2) <= MaxVals
    /\ heap' = Collect(S2.h, Arrays(S2.t))
    /\ t' = S2.t
    /\ last' = [op |-> op, key |-> key, vals |-> vals, arg |-> arg,
                before |-> TagsExport(Cur), ret |-> ret,
                pure |-> last.pure /\ op \in {"Add", "Set", "Copy"}]
    /\ UNCHANGED <<lg, p>>

Add(key, value) == TagsCall("Add", key, value, EmptyMap, TagsAdd(Cur, key, value), EmptyMap)

Merge(key, value) == TagsCall("Merge", key, value, EmptyMap, TagsMerge(Cur, key, value), EmptyMap)

Push(key, value) == TagsCall("Push", key, value, EmptyMap, TagsPush(Cur, key, value), EmptyMap)

Set(key, value) == TagsCall("Set", key, value, EmptyMap, TagsSet(Cur, key, value), EmptyMap)

Pop(key) == TagsCall("Pop", key, <<>>, EmptyMap, TagsPop(Cur, key), EmptyMap)

Del(key) == TagsCall("Del", key, <<>>, EmptyMap, TagsDel(Cur, key), EmptyMap)

DelAll == TagsCall("DelAll", <<>>, <<>>, EmptyMap, TagsDelAll(Cur), EmptyMap)

Import(tags) == TagsCall("Import", <<>>, <<>>, tags, TagsImport(Cur, tags), EmptyMap)

\* Tags.Copy leaves the store alone; ret is the Export of the copy it returns
CopyTags == TagsCall("Copy", <<>>, <<>>, EmptyMap, Cur, TagsExport(TagsCopy(Cur)))

InitTags ==
    /\ heap = EmptyMap
    /\ t = EmptyMap
    /\ lg = EmptyMap
    /\ p = EmptyMap
    /\ last = NoCall

NextTags ==
    \/ \E key \in TagKeys, value \in TagArgs : Add(key, value)
    \/ \E key \in TagKeys, value \in TagArgs : Merge(key, value)
    \/ \E key \in TagKeys, value \in TagArgs : Push(key, value)
    \/ \E key \in TagKeys, value \in TagArgs : Set(key, value)
    \/ \E key \in TagKeys : Pop(key)
    \/ \E key \in TagKeys : Del(key)
    \/ DelAll
    \/ \E tags \in TagMaps : Import(tags)
    \/ CopyTags

SpecTags == InitTags /\ [][NextTags]_vars

----------------------------------------------------------------------------
(* Formatting parameters *)

FormatPlain == 0
FormatJSON == 1

TimestampFormatTypeISO == 0
TimestampFormatTypeStd == 1
TimestampFormatTypeUnknown == 2

Ldate == 1
Ltime == 2
Lmicroseconds == 4
Llongfile == 8
Lshortfile == 16
LUTC == 32
LstdFlags == 3
Lmilliseconds == 65536

\* flag & bit != 0, for a bit that is a power of two
HasFlag(flag, bit) == (flag \div bit) % 2 = 1

(* Timestamp layouts.  The layouts of the package are kept in the layout   *)
(* vocabulary of time.Format, shortened to one field for the date part     *)
(* pair and one per clock part: "1" month, "2" day, "3" hour, "4" minute,  *)
(* "0" a fractional digit, "Z" the zone.  The separators, and so the       *)
(* number of space-separated tokens of every layout, are those of the      *)
(* package's layouts.                                                      *)
TimestampFormatISO == <<"1", "-", "2", "T", "3", ":", "4", "Z">>
TimestampFormatISOTime == <<"3", ":", "4", "Z">>
TimestampFormatISODate == <<"1", "-", "2">>
TimestampFormatStd == <<"1", "/", "2", " ", "3", ":", "4">>
TimestampFormatStdTime == <<"3", ":", "4">>
TimestampFormatStdDate == <<"1", "/", "2">>

\* GenTimestampFormat: the layout for a format type and flags
GenTimestampFormat(tsFormatType, flag) ==
    IF tsFormatType = TimestampFormatTypeISO /\ (HasFlag(flag, Ldate) \/ HasFlag(flag, Ltime))
    THEN IF HasFlag(flag, Ldate) /\ HasFlag(flag, Ltime)
         THEN IF HasFlag(flag, Lmicroseconds)
              THEN <<"1", "-", "2", "T", "3", ":", "4", ".", "0", "0", "Z">>
              ELSE IF HasFlag(flag, Lmilliseconds)
              THEN <<"1", "-", "2", "T", "3", ":", "4", ".", "0", "Z">>
              ELSE TimestampFormatISO
         ELSE IF HasFlag(flag, Ldate)
         THEN TimestampFormatISODate
         ELSE IF HasFlag(flag, Lmicroseconds)
              THEN <<"3", ":", "4", ".", "0", "0", "Z">>
              ELSE IF HasFlag(flag, Lmilliseconds)
              THEN <<"3", ":", "4", ".", "0", "Z">>
              ELSE TimestampFormatISOTime
    ELSE IF tsFormatType = TimestampFormatTypeStd /\ (HasFlag(flag, Ldate) \/ HasFlag(flag, Ltime))
    THEN IF HasFlag(flag, Ldate) /\ HasFlag(flag, Ltime)
         THEN IF HasFlag(flag, Lmicroseconds)
              THEN <<"1", "/", "2", " ", "3", ":", "4", ".", "0", "0">>
              ELSE IF HasFlag(flag, Lmilliseconds)
              THEN <<"1", "/", "2", " ", "3", ":", "4", ".", "0">>
              ELSE TimestampFormatStd
         ELSE IF HasFlag(flag, Ldate)
         THEN TimestampFormatStdDate
         ELSE IF HasFlag(flag, Lmicroseconds)
              THEN <<"3", ":", "4", ".", "0", "0">>
              ELSE IF HasFlag(flag, Lmilliseconds)
              THEN <<"3", ":", "4", ".", "0">>
              ELSE TimestampFormatStdTime
    ELSE <<>>

\* calcTsFormat: the custom layout when there is one, else the one of the flags
calcTsFormat(params) ==
    IF params.TimestampFormat # <<>> THEN params.TimestampFormat
    ELSE GenTimestampFormat(params.TimestampFormatType, params.Flag)

\* ParseTimestampFormat, for the layouts and custom layouts of the model
\* (none of which is the name of a predefined layout)
ParseTimestampFormat(fmt) == fmt

\* var DefaultParams
DefaultParams ==
    [Format |-> FormatPlain,
     TimestampFormat |-> TimestampFormatStd,
     TimestampFormatType |-> TimestampFormatTypeStd,
     Prefix |-> <<>>,
     Flag |-> LstdFlags]

----------------------------------------------------------------------------
(* Time *)

\* time.Time.UTC: the same instant in UTC (local time is one hour ahead)
UTC(now) == IF now.utc THEN now ELSE [now EXCEPT !.utc = TRUE, !.h = now.hUTC]

\* what time.Time.Format writes for one character of the layout
FormatChar(now, c) ==
    CASE c = "1" -> <<now.mo>>
      [] c = "2" -> <<now.d>>
      [] c = "3" -> <<now.h>>
      [] c = "4" -> <<now.mi>>
      [] c = "0" -> <<now.frac>>
      [] c = "Z" -> IF now.utc THEN <<"Z">> ELSE <<"+", "0", "1">>
      [] OTHER -> <<c>>

\* time.Time.Format
RECURSIVE TimeFormat(_, _)
TimeFormat(now, layout) ==
    IF layout = <<>> THEN <<>>
    ELSE FormatChar(now, Head(layout)) \o TimeFormat(now, Tail(layout))

----------------------------------------------------------------------------
(* Level sets *)

LevelDebug == <<"D", "E", "B", "U", "G">>
LevelInfo == <<"I", "N", "F", "O">>
LevelNotice == <<"N", "O", "T", "I", "C", "E">>
LevelWarning == <<"W", "A", "R", "N", "I", "N", "G">>
LevelError == <<"E", "R", "R", "O", "R">>
LevelCritical == <<"C", "R", "I", "T", "I", "C", "A", "L">>
LevelAlert == <<"A", "L", "E", "R", "T">>
LevelEmergency == <<"E", "M", "E", "R", "G", "E", "N", "C", "Y">>

\* the loop of NewLevelSet: the index (from 0) of every name, the last
\* index when a name occurs twice
LevelIndex(levels) ==
    [n \in {ToUpper(levels[i]) : i \in 1..Len(levels)} |->
        (CHOOSE i \in 1..Len(levels) :
            /\ ToUpper(levels[i]) = n
            /\ \A j \in (i + 1)..Len(levels) : ToUpper(levels[j]) # n) - 1]

\* NewLevelSet: the default is kept only when it is one of the levels
NewLevelSet(levels, defaultLevel) ==
    [levels |-> LevelIndex(levels),
     defaultLevel |-> IF ToUpper(defaultLevel) \in DOMAIN LevelIndex(levels)
                      THEN defaultLevel ELSE <<>>]

\* ls.levels[name]: the index, or 0 for a name that is not in the map
LevelOf(ls, name) == IF name \in DOMAIN ls.levels THEN ls.levels[name] ELSE 0

\* LevelSet.Less with <= for <
LessOrEqual(ls, a, b) == LevelOf(ls, ToUpper(a)) <= LevelOf(ls, ToUpper(b))

\* LevelSet.Less
Less(ls, a, b) == LevelOf(ls, ToUpper(a)) < LevelOf(ls, ToUpper(b))

\* LevelSet.Contains
Contains(ls, lvl) == ToUpper(lvl) \in DOMAIN ls.levels

\* var DefaultLevelSet
DefaultLevelSet ==
    NewLevelSet(<<LevelDebug, LevelInfo, LevelNotice, LevelWarning, LevelError,
                  LevelCritical, LevelAlert, LevelEmergency>>, LevelInfo)

----------------------------------------------------------------------------
(* The Logger *)

\* New, with the DefineLevels(DefaultLevelSet) it makes
New(out, prefix, flag) ==
    [tags |-> EmptyMap,
     levelset |-> DefaultLevelSet,
     level |-> DefaultLevelSet.defaultLevel,
     levelTag |-> KLevel,
     standardLevel |-> <<>>,
     out |-> out,
     params |-> [DefaultParams EXCEPT !.Prefix = prefix, !.Flag = flag]]

\* the tag store of logger l with the heap it lives in
LoggerS(l) == [h |-> heap, t |-> lg[l].tags]

\* the arrays that the stores of the loggers in m refer to
LiveArrays(m) == UNION {Arrays(m[l].tags) : l \in DOMAIN m}

\* if key == "" { key = "tags" }
GlobalKey(key) == IF key = <<>> THEN KTags ELSE key

\* a call on logger l: its store becomes S2 and its other fields those of l2
LogCall(l, call, S2, l2) ==
    LET lg2 == MapSet(lg, l, [l2 EXCEPT !.tags = S2.t])
    IN  /\ lg' = lg2
        /\ heap' = Collect(S2.h, LiveArrays(lg2))
        /\ last' = [call EXCEPT !.who = l, !.before = TagsExport(LoggerS(l)),
                                 !.old = lg[l].params,
                                 !.custom = last.custom \/ call.op = "SetTimestampFormat"]
        /\ UNCHANGED <<t, p>>

\* a call of a tag mutator on logger l
TagCall(l, op, key, vals, arg, S2) ==
    /\ NumVals(S2) <= MaxVals
    /\ LogCall(l, [NoCall EXCEPT !.op = op, !.key = key, !.vals = vals, !.arg = arg],
               S2, lg[l])

AddTag(l, key, value) ==
    TagCall(l, "AddTag", key, value, EmptyMap, TagsAdd(LoggerS(l), GlobalKey(key), value))

MergeTag(l, key, value) ==
    TagCall(l, "MergeTag", key, value, EmptyMap, TagsMerge(LoggerS(l), GlobalKey(key), value))

PushTag(l, key, value) ==
    TagCall(l, "PushTag", key, value, EmptyMap, TagsPush(LoggerS(l), GlobalKey(key), value))

PopTag(l, key) ==
    TagCall(l, "PopTag", key, <<>>, EmptyMap, TagsPop(LoggerS(l), GlobalKey(key)))

SetTag(l, key, value) ==
    TagCall(l, "SetTag", key, value, EmptyMap, TagsSet(LoggerS(l), GlobalKey(key), value))

\* Logger.GetTags
GetTags(l, key) == TagsGetAll(LoggerS(l), GlobalKey(key))

\* Logger.GetTag
GetTag(l, key) == TagsGet(LoggerS(l), GlobalKey(key))

\* Logger.DelTag: for "" the key "tags" is deleted, and then the key itself
DelTag(l, key) ==
    TagCall(l, "DelTag", key, <<>>, EmptyMap,
            TagsDel(IF key = <<>> THEN TagsDel(LoggerS(l), KTags) ELSE LoggerS(l), key))

DelTags(l) == TagCall(l, "DelTags", <<>>, <<>>, EmptyMap, TagsDelAll(LoggerS(l)))

\* Logger.ImportTags: the keys of the map are taken as they are
ImportTags(l, tags) ==
    TagCall(l, "ImportTags", <<>>, <<>>, tags, TagsImport(LoggerS(l), tags))

\* one iteration of the loop of Logger.ParseTags
ParseTag1(S, s) ==
    LET ss == Split(s, "=") IN
    IF Len(ss) = 1
    THEN IF Len(ss[1]) > 0 THEN TagsAdd(S, KTags, <<ss[1]>>) ELSE S
    ELSE TagsMerge(S, GlobalKey(ss[1]), <<ss[2]>>)

RECURSIVE ParseTagsLoop(_, _)
ParseTagsLoop(S, tags) ==
    IF tags = <<>> THEN S
    ELSE ParseTagsLoop(ParseTag1(S, Head(tags)), Tail(tags))

\* Logger.ParseTags
ParseTags(l, tags) ==
    TagCall(l, "ParseTags", <<>>, tags, EmptyMap, ParseTagsLoop(LoggerS(l), tags))

\* Logger.SetPrefix
SetPrefix(l, prefix) ==
    LogCall(l, [NoCall EXCEPT !.op = "SetPrefix", !.vals = <<prefix>>],
            LoggerS(l), [lg[l] EXCEPT !.params.Prefix = prefix])

\* Logger.Copy: the struct is copied and the tags map is filled entry by
\* entry with the values of the source, slice headers included
Copy(l, c) ==
    /\ c \notin DOMAIN lg
    /\ lg' = MapSet(lg, c, [lg[l] EXCEPT !.tags = [k \in DOMAIN lg[l].tags |-> lg[l].tags[k]]])
    /\ last' = [NoCall EXCEPT !.op = "Copy", !.who = l, !.before = TagsExport(LoggerS(l))]
    /\ UNCHANGED <<heap, t, p>>

----------------------------------------------------------------------------
(* The line formatter: Logger.Loutput *)

\* the orders in which a range loop may visit the keys of a map
RECURSIVE Perms(_)
Perms(S) ==
    IF S = {} THEN {<<>>}
    ELSE UNION {{<<x>> \o q : q \in Perms(S \ {x})} : x \in S}

\* the keys of a map, in some order
RECURSIVE KeySeq(_)
KeySeq(S) ==
    IF S = {} THEN <<>>
    ELSE LET x == CHOOSE y \in S : TRUE IN <<x>> \o KeySeq(S \ {x})

\* sort.Strings without the sorting: the strings stay in the order given
RECURSIVE SortStringsNoSort(_)
SortStringsNoSort(ss) ==
    IF ss = <<>> THEN <<>> ELSE <<Head(ss)>> \o SortStringsNoSort(Tail(ss))

RECURSIVE InsertString(_, _)
InsertString(x, sorted) ==
    IF sorted = <<>> THEN <<x>>
    ELSE IF StrLess(x, Head(sorted)) THEN <<x>> \o sorted
    ELSE <<Head(sorted)>> \o InsertString(x, Tail(sorted))

\* sort.Strings
RECURSIVE SortStrings(_)
SortStrings(ss) ==
    IF ss = <<>> THEN <<>> ELSE InsertString(Head(ss), SortStrings(Tail(ss)))

\* fmt.Sprintf("[%s]", v)
Bracket(v) == <<"[">> \o v \o <<"]">>

\* fmt.Sprintf("[%s=%s]", k, v)
BracketKV(k, v) == <<"[">> \o k \o <<"=">> \o v \o <<"]">>

\* the body of the loop over the tags in plain format: the tokens of key k
KeyTokens(S, k) ==
    LET v == S.t[k] IN
    IF v.kind = "string"
    THEN IF k = KTags THEN <<Bracket(v.s)>> ELSE <<BracketKV(k, v.s)>>
    ELSE IF k = KTags
         THEN [i \in 1..v.len |-> Bracket(S.h[v.arr][i])]
         ELSE <<BracketKV(k, Join(Elems(S.h, v), <<",">>))>>

\* the loop over the tags in plain format, visiting the keys in `order`
RECURSIVE LineTags(_, _)
LineTags(S, order) ==
    IF order = <<>> THEN <<>>
    ELSE KeyTokens(S, Head(order)) \o LineTags(S, Tail(order))

\* the plain format branch of Loutput
PlainBytes(S, params, nowStr, s, order) ==
    params.Prefix \o
    Join((IF nowStr # <<>> THEN <<nowStr>> ELSE <<>>)
            \o SortStrings(LineTags(S, order))
            \o (IF s # <<>> THEN <<s>> ELSE <<>>),
         <<" ">>)

\* encoding/json: a character inside a string
JSONChar(c) ==
    CASE c = "\"" -> <<"\\", "\"">>
      [] c = "\\" -> <<"\\", "\\">>
      [] c = "\n" -> <<"\\", "n">>
      [] OTHER -> <<c>>

RECURSIVE JSONChars(_)
JSONChars(s) == IF s = <<>> THEN <<>> ELSE JSONChar(Head(s)) \o JSONChars(Tail(s))

\* encoding/json: a string
JSONString(s) == <<"\"">> \o JSONChars(s) \o <<"\"">>

\* encoding/json: a tag value, a string or an array of strings
JSONValue(S, k) ==
    LET v == S.t[k] IN
    IF v.kind = "string" THEN JSONString(v.s)
    ELSE <<"[">> \o Join([i \in 1..v.len |-> JSONString(S.h[v.arr][i])], <<",">>) \o <<"]">>

\* json.Marshal(&tags): one object, the keys sorted
Marshal(S) ==
    LET keys == SortStrings(KeySeq(DOMAIN S.t))
    IN  <<"{">>
        \o Join([i \in 1..Len(keys) |-> JSONString(keys[i]) \o <<":">> \o JSONValue(S, keys[i])],
                <<",">>)
        \o <<"}">>

\* Loutput up to the rendering: the record is discarded, or the level tag
\* is set (to be deleted when Loutput returns).  The level set of a Logger
\* made by New is never nil.
Gated(l, level) == level # <<>> /\ lg[l].level # <<>>

Discarded(l, level) == Gated(l, level) /\ Less(lg[l].levelset, level, lg[l].level)

LevelTagSet(l, level) ==
    /\ Gated(l, level)
    /\ ~Discarded(l, level)
    /\ lg[l].levelTag # <<>>
    /\ Contains(lg[l].levelset, level)

\* the first lines of Loutput: the time, in UTC with LUTC, in the layout
\* that calcTsFormat gives
NowStr(params, now) ==
    TimeFormat(IF HasFlag(params.Flag, LUTC) THEN UTC(now) ELSE now, calcTsFormat(params))

\* Loutput from the rendering on, the map being visited in `order` in plain
\* format: the bytes handed to Write and the store when Loutput returns
Render(l, level, s, now, order) ==
    LET params == lg[l].params
        nowStr == NowStr(params, now)
        S1 == IF LevelTagSet(l, level)
              THEN TagsSet(LoggerS(l), lg[l].levelTag, <<ToUpper(level)>>)
              ELSE LoggerS(l)
        S2 == IF params.Format = FormatJSON
              THEN TagsSet(IF nowStr # <<>> THEN TagsSet(S1, KTimestamp, <<nowStr>>) ELSE S1,
                           KMsg, <<s>>)
              ELSE S1
        b == IF params.Format = FormatJSON THEN Marshal(S2)
             ELSE IF params.Format = FormatPlain THEN PlainBytes(S2, params, nowStr, s, order)
             ELSE <<>>
    IN  [b |-> b \o <<"\n">>,
         S |-> IF LevelTagSet(l, level) THEN TagsDel(S2, lg[l].levelTag) ELSE S2]

\* the orders in which the plain format loop may visit the keys of the
\* store; no other format has a loop over the map
RenderOrders(l, level) ==
    IF lg[l].params.Format = FormatPlain
    THEN Perms((DOMAIN lg[l].tags) \cup (IF LevelTagSet(l, level) THEN {lg[l].levelTag} ELSE {}))
    ELSE {<<>>}

\* Logger.Loutput, called as `op`: nothing is written for a discarded
\* record; otherwise one Write is made, and its error is returned
LoutputCall(l, op, level, s, now, werr) ==
    IF Discarded(l, level)
    THEN LogCall(l, [NoCall EXCEPT !.op = op, !.level = level, !.s = s],
                 LoggerS(l), lg[l])
    ELSE \E order \in RenderOrders(l, level) :
            LET r == Render(l, level, s, now, order)
            IN  LogCall(l, [NoCall EXCEPT !.op = op, !.level = level, !.s = s,
                                          !.wrote = <<r.b>>, !.err = werr],
                        r.S, lg[l])

Loutput(l, level, s, now, werr) == LoutputCall(l, "Loutput", level, s, now, werr)

\* Logger.Output
Output(l, s, now, werr) == LoutputCall(l, "Output", lg[l].standardLevel, s, now, werr)

----------------------------------------------------------------------------
(* The setters of the Logger *)

\* a setter of logger l
SetCall(l, op, vals, l2) ==
    LogCall(l, [NoCall EXCEPT !.op = op, !.vals = vals], [h |-> heap, t |-> l2.tags], l2)

SetFlags(l, flag) ==
    SetCall(l, "SetFlags", <<flag>>, [lg[l] EXCEPT !.params.Flag = flag])

SetTimestampFormatType(l, tsFormatType) ==
    SetCall(l, "SetTimestampFormatType", <<tsFormatType>>,
            [lg[l] EXCEPT !.params.TimestampFormatType = tsFormatType,
                          !.params.TimestampFormat = <<>>])

\* the format type that SetTimestampFormat derives from the layout
TypeOfFormat(tsFormat) ==
    IF tsFormat \in {TimestampFormatISO, TimestampFormatISOTime, TimestampFormatISODate}
    THEN TimestampFormatTypeISO
    ELSE IF tsFormat \in {TimestampFormatStd, TimestampFormatStdTime, TimestampFormatStdDate}
    THEN TimestampFormatTypeStd
    ELSE TimestampFormatTypeUnknown

SetTimestampFormat(l, tsFormat) ==
    SetCall(l, "SetTimestampFormat", <<tsFormat>>,
            [lg[l] EXCEPT !.params.TimestampFormat = ParseTimestampFormat(tsFormat),
                          !.params.TimestampFormatType = TypeOfFormat(ParseTimestampFormat(tsFormat))])

\* SetFormat that keeps the timestamp and msg tags
SetFormatTagsKept(tags, from, format) == tags

\* the tags after SetFormat(format) on a logger in format `from`
SetFormatTags(tags, from, format) ==
    IF from = FormatJSON /\ format = FormatPlain
    THEN MapDel(MapDel(tags, KTimestamp), KMsg)
    ELSE tags

SetFormat(l, format) ==
    SetCall(l, "SetFormat", <<format>>,
            [lg[l] EXCEPT !.tags = SetFormatTags(lg[l].tags, lg[l].params.Format, format),
                          !.params.Format = format])

\* Logger.DefineLevels
DefineLevels(l, ls) ==
    SetCall(l, "DefineLevels", <<>>, [lg[l] EXCEPT !.levelset = ls, !.level = ls.defaultLevel])

\* Logger.SetLevel
SetLevel(l, lvl) ==
    SetCall(l, "SetLevel", <<lvl>>,
            [lg[l] EXCEPT !.level = IF lvl = <<>> \/ ~Contains(lg[l].levelset, lvl)
                                    THEN <<>> ELSE ToUpper(lvl)])

\* Logger.SetLevelTag
SetLevelTag(l, tag) == SetCall(l, "SetLevelTag", <<tag>>, [lg[l] EXCEPT !.levelTag = tag])

\* Logger.SetStandardLevel
SetStandardLevel(l, lvl) ==
    SetCall(l, "SetStandardLevel", <<lvl>>, [lg[l] EXCEPT !.standardLevel = lvl])

----------------------------------------------------------------------------
(* A logger and its copy *)

CopyKeys == {<<"k">>}

CopyArgs == {<< <<"a">> >>, << <<"b">> >>}

CopyMaps == {[k \in {<<"k">>} |-> << <<"a">>, <<"b">> >>]}

CopyPrefixes == {<<"B", " ">>}

InitCopy ==
    /\ heap = EmptyMap
    /\ t = EmptyMap
    /\ lg = [l \in {"L"} |-> New("out", <<"A", " ">>, 0)]
    /\ p = EmptyMap
    /\ last = NoCall

NextCopy ==
    \/ \E l \in DOMAIN lg, key \in CopyKeys, value \in CopyArgs : AddTag(l, key, value)
    \/ \E l \in DOMAIN lg, key \in CopyKeys, value \in CopyArgs : PushTag(l, key, value)
    \/ \E l \in DOMAIN lg, key \in CopyKeys, value \in CopyArgs : MergeTag(l, key, value)
    \/ \E l \in DOMAIN lg, key \in CopyKeys, value \in CopyArgs : SetTag(l, key, value)
    \/ \E l \in DOMAIN lg, key \in CopyKeys : PopTag(l, key)
    \/ \E l \in DOMAIN lg, key \in CopyKeys : DelTag(l, key)
    \/ \E l \in DOMAIN lg : DelTags(l)
    \/ \E l \in DOMAIN lg, tags \in CopyMaps : ImportTags(l, tags)
    \/ \E l \in DOMAIN lg, prefix \in CopyPrefixes : SetPrefix(l, prefix)
    \/ Copy("L", "C")

SpecCopy == InitCopy /\ [][NextCopy]_vars

\* what the claims on copies observe of logger l: its tags and its prefix
Observed(l) == [tags |-> TagsExport(LoggerS(l)), prefix |-> lg[l].params.Prefix]

\* C1: Copy independence. A call on one logger leaves the tag values and
\* the prefix of every other logger as they were, so that each logger's
\* tags and prefix depend on the calls made on it alone.
C1_CopyIndependent ==
    [][\A l \in DOMAIN lg : last'.who # l => Observed(l)' = Observed(l)]_vars

----------------------------------------------------------------------------
(* One logger: tags, formatting parameters and output *)

KJobId == <<"j", "o", "b", "_", "i", "d">>
KFilters == <<"f", "i", "l", "t", "e", "r", "s">>

\* the AddTag calls made: a key with its values
OutTagInputs ==
    { <<KJobId, << <<"1", "2", "3", "4", "5", "6">> >> >>,
      <<KFilters, << <<"v", "o", "l">>, <<"d", "e", "l", "a", "y">> >> >>,
      <<<<>>, << <<"g", "o">> >> >> }

OutPrefixes == {<<>>, <<"A", " ">>}

OutFlags == {0, Ldate, LstdFlags}

OutMsgs == {<<>>, <<"M", "e", "s", "s", "a", "g", "e", " ", "S", "t", "r", "i", "n", "g">>}

OutFormatTypes == {TimestampFormatTypeStd, TimestampFormatTypeISO}

OutTimestampFormats == {TimestampFormatISO}

\* the time of the calls: local time, one hour ahead of UTC
Now == [mo |-> "7", d |-> "9", h |-> "8", hUTC |-> "7", mi |-> "6", frac |-> "5", utc |-> FALSE]

Init ==
    /\ heap = EmptyMap
    /\ t = EmptyMap
    /\ \E prefix \in OutPrefixes, flag \in {0, LstdFlags} :
          lg = [l \in {"L"} |-> New("out", prefix, flag)]
    /\ p = EmptyMap
    /\ last = NoCall

Next ==
    \/ \E in \in OutTagInputs : AddTag("L", in[1], in[2])
    \/ DelTags("L")
    \/ \E format \in {FormatPlain, FormatJSON} : SetFormat("L", format)
    \/ \E flag \in OutFlags : SetFlags("L", flag)
    \/ \E tsFormatType \in OutFormatTypes : SetTimestampFormatType("L", tsFormatType)
    \/ \E tsFormat \in OutTimestampFormats : SetTimestampFormat("L", tsFormat)
    \/ \E s \in OutMsgs : Output("L", s, Now, FALSE)

Spec == Init /\ [][Next]_vars

----------------------------------------------------------------------------
(* Properties of the formatter, under Spec *)

\* the tokens of a tag map in plain format, the keys taken in some order:
\* one token per value of the global tags, one token per other key
RECURSIVE TokensOf(_, _)
TokensOf(m, keys) ==
    IF keys = {} THEN <<>>
    ELSE LET k == CHOOSE x \in keys : TRUE
         IN  (IF k = KTags THEN [i \in 1..Len(m[k]) |-> Bracket(m[k][i])]
              ELSE <<BracketKV(k, Join(m[k], <<",">>))>>)
             \o TokensOf(m, keys \ {k})

\* the arrangements of the tokens in which no token is followed by a
\* smaller one
Ascending(toks) ==
    { [i \in 1..Len(toks) |-> toks[q[i]]] :
        q \in { f \in Perms(1..Len(toks)) :
                  \A i \in 1..(Len(toks) - 1) : ~StrLess(toks[f[i + 1]], toks[f[i]]) } }

\* a plain line: prefix, then timestamp, tokens and message joined by
\* spaces, those that are empty left out, then a newline
PlainLine(prefix, ts, toks, s) ==
    prefix
    \o Join((IF ts # <<>> THEN <<ts>> ELSE <<>>) \o toks \o (IF s # <<>> THEN <<s>> ELSE <<>>),
            <<" ">>)
    \o <<"\n">>

\* the last call wrote a line in plain format
WrotePlain == last.op \in {"Output", "Loutput"} /\ last.old.Format = FormatPlain /\ last.wrote # <<>>

\* C2: on a logger on which SetTimestampFormat was never called the flags
\* govern the timestamp of a plain line: it is rendered in the layout that
\* the format type and the flags give, which with flag = 0 is no timestamp
\* at all and with Ldate alone the date.
C2_FlagsGovernTimestamp ==
    (WrotePlain /\ ~last.custom) =>
        \E toks \in Ascending(TokensOf(last.before, DOMAIN last.before)) :
            last.wrote[1] =
                PlainLine(last.old.Prefix,
                          TimeFormat(Now, GenTimestampFormat(last.old.TimestampFormatType,
                                                             last.old.Flag)),
                          toks, last.s)

C5_SwitchClearsTransients ==
    (last.op = "SetFormat" /\ last.old.Format = FormatJSON
        /\ lg[last.who].params.Format = FormatPlain) =>
        LET now == TagsExport(LoggerS(last.who)) IN
        /\ KTimestamp \notin DOMAIN now
        /\ KMsg \notin DOMAIN now
        /\ DOMAIN now = (DOMAIN last.before) \ {KTimestamp, KMsg}
        /\ \A k \in DOMAIN now : now[k] = last.before[k]

\* the switch was made on a store that held both keys, from records written
\* in JSON format, and other tags
C5_Witness ==
    /\ last.op = "SetFormat"
    /\ last.old.Format = FormatJSON
    /\ lg[last.who].params.Format = FormatPlain
    /\ {KTimestamp, KMsg, KFilters} \subseteq DOMAIN last.before
    /\ DOMAIN lg[last.who].tags = {KFilters}

----------------------------------------------------------------------------
(* One logger: levels *)

\* the level set [DEBUG, INFO, WARNING, ERROR]
FourLevels == NewLevelSet(<<LevelDebug, LevelInfo, LevelWarning, LevelError>>, LevelInfo)

\* the levels that SetLevel is called with
MinLevels == {LevelWarning, <<"d", "e", "b", "u", "g">>, <<>>}

\* the levels that records are logged at, one of them in no level set
LogLevels == {<<>>, <<"i", "n", "f", "o">>, LevelWarning, LevelError, <<"F", "O", "O">>}

LevelTags == {KLevel, <<>>}

\* the keys that tags are added under, one of them the default level tag key
LevelKeys == {<<"k">>, KLevel}

InitLevel ==
    /\ heap = EmptyMap
    /\ t = EmptyMap
    /\ lg = [l \in {"L"} |-> New("out", <<>>, 0)]
    /\ p = EmptyMap
    /\ last = NoCall

NextLevel ==
    \/ DefineLevels("L", FourLevels)
    \/ \E lvl \in MinLevels : SetLevel("L", lvl)
    \/ \E tag \in LevelTags : SetLevelTag("L", tag)
    \/ \E format \in {FormatPlain, FormatJSON} : SetFormat("L", format)
    \/ \E key \in LevelKeys : AddTag("L", key, << <<"a">> >>)
    \/ \E level \in LogLevels, werr \in BOOLEAN : Loutput("L", level, <<"m">>, Now, werr)

SpecLevel == InitLevel /\ [][NextLevel]_vars

\* sub occurs in s
HasSub(s, sub) ==
    \E i \in 0..(Len(s) - Len(sub)) : SubSeq(s, i + 1, i + Len(sub)) = sub

\* the level tag as a line shows it in the format f
LevelToken(f, tag, level) ==
    IF f = FormatJSON THEN JSONString(tag) \o <<":">> \o JSONString(ToUpper(level))
    ELSE BracketKV(tag, ToUpper(level))

\* C3: Level gating. With a minimum level set, a record at a level of the
\* level set below the minimum writes nothing, returns nil and leaves the
\* tags as they were; a record at a level of the set at or above the minimum
\* writes one line, which shows the level tag with the upper-cased level
\* when a level tag key is configured.
C3_LevelGating ==
    LET l == lg[last.who]
        rank(x) == l.levelset.levels[ToUpper(x)]
    IN  (/\ last.op = "Loutput"
         /\ last.level # <<>>
         /\ l.level # <<>>
         /\ ToUpper(last.level) \in DOMAIN l.levelset.levels) =>
            IF rank(last.level) < rank(l.level)
            THEN /\ last.wrote = <<>>
                 /\ ~last.err
                 /\ TagsExport(LoggerS(last.who)) = last.before
            ELSE /\ Len(last.wrote) = 1
                 /\ l.levelTag # <<>> =>
                        HasSub(last.wrote[1],
                               LevelToken(l.params.Format, l.levelTag, last.level))

\* levels [DEBUG, INFO, WARNING, ERROR], minimum WARNING: a record at ERROR
\* gave a line with level=ERROR
C3_Witness ==
    /\ last.op = "Loutput"
    /\ last.level = LevelError
    /\ lg["L"].levelset = FourLevels
    /\ lg["L"].level = LevelWarning
    /\ lg["L"].params.Format = FormatPlain
    /\ HasSub(last.wrote[1],
              <<"[", "l", "e", "v", "e", "l", "=", "E", "R", "R", "O", "R", "]">>)

----------------------------------------------------------------------------
(* One logger: the tag calls with the global key *)

ApiKeys == {<<>>, KTags, <<"k">>}

ApiArgs == {<< <<"a">> >>, << <<"b">> >>}

\* the lists that ParseTags is called with: "=a", "b", "k=a", ""
ApiParseArgs ==
    { << <<"=", "a">> >>, << <<"b">> >>, << <<"k", "=", "a">> >>, << <<>> >> }

\* the maps that ImportTags is called with: {"": [a]}, {"tags": [b]}
ApiMaps ==
    { [k \in {<<>>} |-> << <<"a">> >>],
      [k \in {KTags} |-> << <<"b">> >>] }

InitApi ==
    /\ heap = EmptyMap
    /\ t = EmptyMap
    /\ lg = [l \in {"L"} |-> New("out", <<>>, 0)]
    /\ p = EmptyMap
    /\ last = NoCall

NextApi ==
    \/ \E key \in ApiKeys, value \in ApiArgs : AddTag("L", key, value)
    \/ \E key \in ApiKeys, value \in ApiArgs : PushTag("L", key, value)
    \/ \E key \in ApiKeys, value \in ApiArgs : MergeTag("L", key, value)
    \/ \E key \in ApiKeys, value \in ApiArgs : SetTag("L", key, value)
    \/ \E key \in ApiKeys : PopTag("L", key)
    \/ \E key \in ApiKeys : DelTag("L", key)
    \/ \E tags \in ApiParseArgs : ParseTags("L", tags)
    \/ \E tags \in ApiMaps : ImportTags("L", tags)

SpecApi == InitApi /\ [][NextApi]_vars

\* C6: "" and "tags" are one key. The store holds no entry under "",
\* GetTags("") and GetTags("tags") are equal, and every value the store
\* holds under either key is among them.
C6_GlobalKeyIsOne ==
    \A l \in DOMAIN lg :
        /\ <<>> \notin DOMAIN lg[l].tags
        /\ GetTags(l, <<>>) = GetTags(l, KTags)
        /\ \A k \in {<<>>, KTags} :
              Range(TagsGetAll(LoggerS(l), k)) \subseteq Range(GetTags(l, <<>>))

----------------------------------------------------------------------------
(* The Parser *)

\* NewParser
NewParser(params) == [params |-> params, tags |-> EmptyMap]

Digits == {"0", "1", "2", "3", "4", "5", "6", "7", "8", "9"}

\* time.Parse: the text matches the layout when every field of the layout
\* meets a digit (the zone "Z" or an offset of two digits) and every other
\* character itself
RECURSIVE TimeMatches(_, _)
TimeMatches(layout, str) ==
    IF layout = <<>> THEN str = <<>>
    ELSE IF str = <<>> THEN FALSE
    ELSE IF Head(layout) \in {"1", "2", "3", "4", "0"}
         THEN Head(str) \in Digits /\ TimeMatches(Tail(layout), Tail(str))
    ELSE IF Head(layout) = "Z"
         THEN \/ Head(str) = "Z" /\ TimeMatches(Tail(layout), Tail(str))
              \/ /\ Len(str) >= 3
                 /\ Head(str) = "+" /\ str[2] \in Digits /\ str[3] \in Digits
                 /\ TimeMatches(Tail(layout), SubSeq(str, 4, Len(str)))
    ELSE Head(str) = Head(layout) /\ TimeMatches(Tail(layout), Tail(str))

\* the loop of parseLinePlain over the characters of the line, from the
\* character at index i (from 0): the tag tokens and the start of the message
RECURSIVE ScanTokens(_, _, _, _, _)
ScanTokens(line, i, tokenStart, msgStart, tagTokens) ==
    IF i >= Len(line) THEN [tagTokens |-> tagTokens, msgStart |-> msgStart]
    ELSE LET c == line[i + 1] IN
         IF tokenStart < 0
         THEN IF c = "]" THEN [tagTokens |-> tagTokens, msgStart |-> msgStart]
              ELSE IF c = "[" THEN ScanTokens(line, i + 1, i, msgStart, tagTokens)
              ELSE ScanTokens(line, i + 1, tokenStart, msgStart, tagTokens)
         ELSE IF c = "]"
              THEN ScanTokens(line, i + 1, -1, i + 2,
                              Append(tagTokens, SubSeq(line, tokenStart + 2, i)))
              ELSE ScanTokens(line, i + 1, tokenStart, msgStart, tagTokens)

\* the loop of parseLinePlain over the tag tokens
RECURSIVE AddTokens(_, _)
AddTokens(S, tagTokens) ==
    IF tagTokens = <<>> THEN S
    ELSE LET pairs == Split(Head(tagTokens), "=")
             S2 == IF Len(pairs) = 1 THEN TagsAdd(S, KTags, <<pairs[1]>>)
                   ELSE TagsAdd(S, pairs[1], Split(pairs[2], ","))
         IN  AddTokens(S2, Tail(tagTokens))

\* the text of a line that the timestamp layout claims: as many
\* space-separated tokens as the layout has
TimestampText(tsFormat, line) ==
    LET n == Len(Split(tsFormat, " "))
        lineSplit == Split(line, " ")
    IN  IF Len(lineSplit) < n THEN <<>> ELSE Join(SubSeq(lineSplit, 1, n), <<" ">>)

\* Parser.parseLinePlain with an empty timestampFormat: an error, or the
\* tags of the line in a store of their own
parseLinePlain(params, line0) ==
    LET noPrefix == params.Prefix # <<>> /\ ~HasPrefix(line0, params.Prefix)
        line1 == IF params.Prefix # <<>> THEN TrimPrefix(line0, params.Prefix) ELSE line0
        tsFormat == calcTsFormat(params)
        tsStr == TimestampText(tsFormat, line1)
        noTime == /\ tsFormat # <<>>
                  /\ \/ Len(Split(line1, " ")) < Len(Split(tsFormat, " "))
                     \/ ~TimeMatches(tsFormat, tsStr)
        line == IF tsFormat # <<>> THEN TrimLeftSpace(TrimPrefix(line1, tsStr)) ELSE line1
        S0 == [h |-> EmptyMap, t |-> EmptyMap]
        S1 == IF tsFormat # <<>> THEN TagsAdd(S0, KTimestamp, <<tsStr>>) ELSE S0
        scan == ScanTokens(line, 0, -1, 0, <<>>)
    IN  IF noPrefix THEN [err |-> "Log format mismatch: prefix", S |-> S0]
        ELSE IF noTime THEN [err |-> "Log format mismatch: timestamp", S |-> S0]
        ELSE IF scan.msgStart >= Len(line) THEN [err |-> "Empty line", S |-> S0]
        ELSE [err |-> "",
              S |-> AddTokens(TagsAdd(S1, KMsg, <<SubSeq(line, scan.msgStart + 1, Len(line))>>),
                              scan.tagTokens)]

\* the parser's store with the heap it lives in
ParserS == [h |-> heap, t |-> p.tags]

\* Parser.MergeTags that sets the values of every key instead of merging them
RECURSIVE MergeTagsOverwrite(_, _)
MergeTagsOverwrite(S, newTags) ==
    IF DOMAIN newTags = {} THEN S
    ELSE LET k == CHOOSE x \in DOMAIN newTags : TRUE
         IN  MergeTagsOverwrite(TagsSet(S, k, newTags[k]), MapDel(newTags, k))

\* Parser.MergeTags
MergeTags(S, newTags) == TagsImport(S, newTags)

\* Parser.mergeLinePlain: what the line gave (its tags without msg and
\* timestamp) and the aggregate after it
mergeLinePlain(line) ==
    LET r == parseLinePlain(p.params, line)
        seen == TagsExport(TagsDel(TagsDel(r.S, KMsg), KTimestamp))
    IN  IF r.err # "" THEN [err |-> r.err, seen |-> EmptyMap, S |-> ParserS]
        ELSE [err |-> "", seen |-> seen, S |-> MergeTags(ParserS, seen)]

\* Parser.ParseLine in plain format
ParseLine(line) ==
    /\ p.params.Format = FormatPlain
    /\ LET r == mergeLinePlain(line)
       IN  /\ p' = [p EXCEPT !.tags = r.S.t]
           /\ heap' = Collect(r.S.h, Arrays(r.S.t))
           /\ last' = [NoCall EXCEPT !.op = "ParseLine", !.s = line, !.err = (r.err # ""),
                                     !.before = TagsExport(ParserS), !.ret = r.seen]
    /\ UNCHANGED <<t, lg>>

\* Parser.Reset
Reset ==
    /\ p' = [p EXCEPT !.tags = EmptyMap]
    /\ heap' = EmptyMap
    /\ last' = [NoCall EXCEPT !.op = "Reset", !.before = TagsExport(ParserS)]
    /\ UNCHANGED <<t, lg>>

\* the params of the parsers: no prefix and no timestamp, and a prefix with
\* the default timestamp layout
ParserParams ==
    { [DefaultParams EXCEPT !.TimestampFormat = <<>>, !.Flag = 0],
      [DefaultParams EXCEPT !.Prefix = <<"A", " ">>] }

\* the lines parsed
ParserLines ==
    { <<"[", "k", "=", "a", "]", " ", "m">>,
      <<"[", "k", "=", "b", ",", "a", "]", " ", "[", "j", "=", "c", "]", " ", "m">>,
      <<"[", "g", "o", "]", " ", "[", "k", "=", "c", "]", " ", "[", "k", "=", "c", "]", " ", "m">>,
      <<"[", "m", "s", "g", "=", "x", "]", " ", "m">>,
      <<"[", "k", "=", "d", "]">>,
      <<"m">>,
      <<>>,
      <<"A", " ", "7", "/", "9", " ", "8", ":", "6", " ", "[", "k", "=", "a", "]", " ", "m">>,
      <<"A", " ", "7", "/", "9", " ", "8", ":", "6", " ", "[", "k", "=", "b", ",", "a", "]", " ",
        "[", "g", "o", "]", " ", "m">>,
      <<"A", " ", "7", "/", "9", " ", "8", ":", "6", " ",
        "[", "t", "i", "m", "e", "s", "t", "a", "m", "p", "=", "y", "]", " ", "[", "j", "=", "c", "]", " ", "m">>,
      <<"A", " ", "7", "/", "9", " ", "[", "k", "=", "d", "]", " ", "m">>,
      <<"7", "/", "9", " ", "8", ":", "6", " ", "[", "k", "=", "d", "]", " ", "m">> }

InitParser ==
    /\ heap = EmptyMap
    /\ t = EmptyMap
    /\ lg = EmptyMap
    /\ \E params \in ParserParams : p = NewParser(params)
    /\ last = NoCall

NextParser ==
    \/ \E line \in ParserLines : ParseLine(line)
    \/ Reset

SpecParser == InitParser /\ [][NextParser]_vars

\* the values of vs that are not in old, each once, in the order in which
\* they first occur
RECURSIVE FirstSeen(_, _)
FirstSeen(old, vs) ==
    IF vs = <<>> THEN <<>>
    ELSE IF Head(vs) \in Range(old) THEN FirstSeen(old, Tail(vs))
    ELSE <<Head(vs)>> \o FirstSeen(Append(old, Head(vs)), Tail(vs))

\* the values of key k in a map, none when the map has no such key
ValuesAt(m, k) == IF k \in DOMAIN m THEN m[k] ELSE <<>>

\* C10: Parser aggregation. A line that fails to parse leaves the aggregate
\* as it was. A line that parses leaves, for every key, the values the
\* aggregate had, in their order, followed by the values of the line that
\* are new for the key, each once and in the order of their first
\* occurrence. The aggregate never has a value twice for a key and never
\* has the keys "msg" and "timestamp".
C10_ParserAggregates ==
    LET agg == TagsExport(ParserS) IN
    /\ KMsg \notin DOMAIN agg
    /\ KTimestamp \notin DOMAIN agg
    /\ \A k \in DOMAIN agg :
          \A i, j \in 1..Len(agg[k]) : agg[k][i] = agg[k][j] => i = j
    /\ last.op = "ParseLine" =>
          IF last.err THEN agg = last.before
          ELSE /\ DOMAIN agg = (DOMAIN last.before) \cup (DOMAIN last.ret)
               /\ \A k \in DOMAIN agg :
                     agg[k] = ValuesAt(last.before, k)
                                \o FirstSeen(ValuesAt(last.before, k), ValuesAt(last.ret, k))

\* a line with a prefix, a timestamp and the values b and a for k was merged
\* into an aggregate that had a for k: b came last and a stayed once
C10_Witness ==
    /\ last.op = "ParseLine"
    /\ ~last.err
    /\ p.params.Prefix # <<>>
    /\ ValuesAt(last.before, <<"k">>) = << <<"a">> >>
    /\ ValuesAt(last.ret, <<"k">>) = << <<"b">>, <<"a">> >>
    /\ TagsExport(ParserS)[<<"k">>] = << <<"a">>, <<"b">> >>

----------------------------------------------------------------------------
(* Properties of the tag store, under SpecTags *)

\* C7: Pop/Add inverse. In every state of the store and for every key k,
\* absent, single or multi-valued, Add(k, v) followed by Pop(k) gives a
\* store with the same keys and the same ordered values per key.
C7_PopUndoesAdd ==
    \A k \in TagKeys, v \in TagValues :
        TagsExport(TagsPop(TagsAdd(Cur, k, <<v>>), k)) = TagsExport(Cur)

\* a Pop was made on a key that held three values and left the first two,
\* in a sequence with spare capacity
C7_Witness ==
    /\ last.op = "Pop"
    /\ last.key \in DOMAIN last.before
    /\ Len(last.before[last.key]) = 3
    /\ t[last.key].kind = "slice"
    /\ TagsGetAll(Cur, last.key) = SubSeq(last.before[last.key], 1, 2)

\* C8: Merge idempotence. In every state of the store, for every key k and
\* argument list vs, a second Merge(k, vs...) changes nothing, and Merge
\* keeps the values of k and appends none that k already held.
C8_MergeIdempotent ==
    \A k \in TagKeys, vs \in TagArgs :
        LET S1 == TagsMerge(Cur, k, vs)
            old == TagsGetAll(Cur, k)
            new == TagsGetAll(S1, k)
        IN  /\ TagsExport(TagsMerge(S1, k, vs)) = TagsExport(S1)
            /\ Len(new) >= Len(old)
            /\ SubSeq(new, 1, Len(old)) = old
            /\ \A i \in (Len(old) + 1)..Len(new) : new[i] \notin Range(old)

\* a Merge with a repeated value was made on a key that held another value,
\* and added the value once
C8_Witness ==
    /\ last.op = "Merge"
    /\ last.vals = << <<"a">>, <<"a">> >>
    /\ last.key \in DOMAIN last.before
    /\ last.before[last.key] = << <<"b">> >>
    /\ TagsGetAll(Cur, last.key) = << <<"b">>, <<"a">> >>

\* C9: Export/Import round trip. The Export of the store that Tags.Copy
\* builds by Import(Export()) equals the Export of the source, for a
\* source built by Add and Set calls only: same keys, same values in the
\* same order with the same multiplicity.
C9_CopyKeepsExport ==
    (last.op = "Copy" /\ last.pure) => last.ret = last.before

----------------------------------------------------------------------------
(* Parser.PlainToJSON, one step per line read *)

\* the most lines an input has
MaxLines == 3

\* var lineTags Tags: nil until a line is parsed
NilTags == [nil |-> TRUE, S |-> [h |-> EmptyMap, t |-> EmptyMap]]

\* json.Marshal(&lineTags): a nil map is encoded as null
MarshalTags(lt) == IF lt.nil THEN <<"n", "u", "l", "l">> ELSE Marshal(lt.S)

\* fmt.Fprintln(output, string(b))
Fprintln(out, b) == Append(out, b \o <<"\n">>)

\* the else branch of the second loop: lineTags.Set("msg", lineTags.Get("msg") + "\n" + s)
ContinueMsg(lt, line) ==
    [lt EXCEPT !.S = TagsSet(lt.S, KMsg, <<TagsGet(lt.S, KMsg) \o <<"\n">> \o line>>)]

\* a converter at the start of PlainToJSON(input, output, ""), the output
\* being a writer that takes every write.  sink holds the errors that the
\* coming calls of output.Write return ("" for nil; nil when there is none
\* left), out what was written, werr the errors that Write has returned
NewStream(params, input) ==
    [params |-> params, tags |-> EmptyMap, all |-> input, input |-> input, out |-> <<>>,
     sink |-> <<>>, werr |-> <<>>,
     lineTags |-> NilTags, s |-> <<>>, pc |-> "first", ret |-> "running"]

\* b, err := json.Marshal(&lineTags); if err == nil { fmt.Fprintln(output,
\* string(b)) } in converter c: one Write on the output, what it returns
\* being dropped
WriteRecord(c, b) ==
    IF c.sink # <<>> /\ Head(c.sink) # ""
    THEN [c EXCEPT !.sink = Tail(@), !.werr = Append(@, Head(c.sink))]
    ELSE [c EXCEPT !.out = Fprintln(@, b), !.sink = IF @ = <<>> THEN @ ELSE Tail(@)]

\* the first loop: a line is read; the loop ends with the first line that parses
ScanFirst ==
    /\ p.pc = "first"
    /\ p.input # <<>>
    /\ LET line == Head(p.input)
           r == parseLinePlain(p.params, line)
       IN  /\ p' = [p EXCEPT !.input = Tail(p.input), !.s = line,
                             !.lineTags = IF r.err = "" THEN [nil |-> FALSE, S |-> r.S] ELSE @,
                             !.pc = IF r.err = "" THEN "second" ELSE "first"]
           /\ last' = [NoCall EXCEPT !.op = "ScanFirst", !.s = line, !.err = (r.err # "")]
    /\ UNCHANGED <<heap, t, lg>>

\* the first loop ends with the input: `if s == "" { return scanner.Err() }`
EndFirst ==
    /\ p.pc = "first"
    /\ p.input = <<>>
    /\ p' = IF p.s = <<>> THEN [p EXCEPT !.pc = "done", !.ret = "nil"]
            ELSE [p EXCEPT !.pc = "second"]
    /\ last' = [NoCall EXCEPT !.op = "EndFirst", !.s = p.s]
    /\ UNCHANGED <<heap, t, lg>>

\* the second loop: a line that parses flushes the pending record and
\* becomes the pending one, any other line is added to the pending message
ScanSecond ==
    /\ p.pc = "second"
    /\ p.input # <<>>
    /\ LET line == Head(p.input)
           r == parseLinePlain(p.params, line)
       IN  /\ p' = IF r.err = ""
                   THEN [WriteRecord(p, MarshalTags(p.lineTags))
                            EXCEPT !.input = Tail(p.input), !.s = line,
                                   !.lineTags = [nil |-> FALSE, S |-> r.S]]
                   ELSE [p EXCEPT !.input = Tail(p.input), !.s = line,
                                  !.lineTags = ContinueMsg(p.lineTags, line)]
           /\ last' = [NoCall EXCEPT !.op = "ScanSecond", !.s = line, !.err = (r.err # "")]
    /\ UNCHANGED <<heap, t, lg>>

\* the end of the input in the second loop: the pending record is written
\* and nil returned
EndSecond ==
    /\ p.pc = "second"
    /\ p.input = <<>>
    /\ p' = [WriteRecord(p, MarshalTags(p.lineTags)) EXCEPT !.pc = "done", !.ret = "nil"]
    /\ last' = [NoCall EXCEPT !.op = "EndSecond", !.s = p.s]
    /\ UNCHANGED <<heap, t, lg>>

\* the params of the converters: no timestamp, with and without a prefix
StreamParams ==
    { [DefaultParams EXCEPT !.TimestampFormat = <<>>, !.Flag = 0, !.Prefix = <<"A", " ">>],
      [DefaultParams EXCEPT !.TimestampFormat = <<>>, !.Flag = 0] }

\* the lines of the inputs: "A [k=a] m", "A [k=a]", "A n", "A [msg=x] m",
\* "x", ""
StreamLines ==
    { <<"A", " ", "[", "k", "=", "a", "]", " ", "m">>,
      <<"A", " ", "[", "k", "=", "a", "]">>,
      <<"A", " ", "n">>,
      <<"A", " ", "[", "m", "s", "g", "=", "x", "]", " ", "m">>,
      <<"x">>,
      <<>> }

\* the inputs: up to MaxLines lines
StreamInputs == UNION {[1..n -> StreamLines] : n \in 0..MaxLines}

InitStream ==
    /\ heap = EmptyMap
    /\ t = EmptyMap
    /\ lg = EmptyMap
    /\ \E params \in StreamParams, input \in StreamInputs : p = NewStream(params, input)
    /\ last = NoCall

NextStream == ScanFirst \/ EndFirst \/ ScanSecond \/ EndSecond

SpecStream == InitStream /\ [][NextStream]_vars

\* line parses as a header under the converter's params
IsHeader(line) == parseLinePlain(p.params, line).err = ""

\* the places of the header lines in an input
HeaderIdx(all) == {i \in 1..Len(all) : IsHeader(all[i])}

\* the lines that follow the header at place i, up to the next header or
\* the end of the input, each behind a newline
RECURSIVE Continuation(_, _)
Continuation(all, j) ==
    IF j > Len(all) \/ IsHeader(all[j]) THEN <<>>
    ELSE <<"\n">> \o all[j] \o Continuation(all, j + 1)

\* the record of the header at place i: its tags, with the message of the
\* header followed by the lines that continue it
RecordOf(all, i) ==
    LET S == parseLinePlain(p.params, all[i]).S
    IN  Marshal(TagsSet(S, KMsg, <<SubSeq(TagsGetAll(S, KMsg), 1, 1)[1] \o Continuation(all, i + 1)>>))
        \o <<"\n">>

\* the records of an input, one per header, in the order of the input
RECURSIVE RecordsFrom(_, _)
RecordsFrom(all, i) ==
    IF i > Len(all) THEN <<>>
    ELSE IF IsHeader(all[i]) THEN <<RecordOf(all, i)>> \o RecordsFrom(all, i + 1)
    ELSE RecordsFrom(all, i + 1)

\* C11: Stream conversion records. For an input with a header, what
\* PlainToJSON has written is at every moment the first records of the
\* input, and when it returns it is all of them: one JSON line per header,
\* in the order of the input, the message of each being the header's
\* message followed by a newline and the text of every line up to the next
\* header, the last record written once at the end of the input.
C11_OneRecordPerHeader ==
    HeaderIdx(p.all) # {} =>
        LET recs == RecordsFrom(p.all, 1) IN
        /\ Len(p.out) <= Len(recs)
        /\ \A i \in 1..Len(p.out) : p.out[i] = recs[i]
        /\ p.pc = "done" => p.out = recs

\* C20: for an input without a header PlainToJSON writes nothing and
\* returns nil.
C20_NoHeaderNoOutput ==
    HeaderIdx(p.all) = {} =>
        /\ p.out = <<>>
        /\ p.pc = "done" => p.ret = "nil"

\* err is one of the format-mismatch errors of parseLinePlain
IsMismatch(err) == err \in {"Log format mismatch: prefix", "Log format mismatch: timestamp"}

\* C21: in the second loop of PlainToJSON, where a record is pending, a line
\* whose parse fails with an error other than a format mismatch (such as
\* "Empty line") aborts the conversion: PlainToJSON has returned, and what
\* it returned is that error.
C21_OtherErrorsAbort ==
    LET err == parseLinePlain(p.params, last.s).err IN
    (last.op = "ScanSecond" /\ err # "" /\ ~IsMismatch(err)) =>
        /\ p.pc = "done"
        /\ p.ret = err

----------------------------------------------------------------------------
(* One logger whose lines are parsed again *)

RoundKeys == {<<>>, <<"k">>}

RoundArgs == {<< <<"a">> >>, << <<"b">> >>}

RoundMsgs == {<<"m">>, <<"m", " ", "n">>}

InitRound ==
    /\ heap = EmptyMap
    /\ t = EmptyMap
    /\ \E prefix \in OutPrefixes, flag \in {0, LstdFlags} :
          lg = [l \in {"L"} |-> New("out", prefix, flag)]
    /\ p = EmptyMap
    /\ last = NoCall

NextRound ==
    \/ \E key \in RoundKeys, value \in RoundArgs : AddTag("L", key, value)
    \/ \E key \in RoundKeys : PopTag("L", key)
    \/ \E tsFormat \in {<<>>} : SetTimestampFormat("L", tsFormat)
    \/ \E s \in RoundMsgs : Output("L", s, Now, FALSE)

SpecRound == InitRound /\ [][NextRound]_vars

\* a line as a bufio.Scanner hands it on: without the newline at its end
ScannerText(b) == IF b # <<>> /\ b[Len(b)] = "\n" THEN SubSeq(b, 1, Len(b) - 1) ELSE b

\* C12: Plain format-then-parse round trip. The plain line written for a
\* non-empty message, parsed with the params it was written with, gives the
\* message as msg and, for every key of the store, the global key "tags"
\* among them, the values the store held, in their order.
C12_PlainRoundTrip ==
    (WrotePlain /\ last.s # <<>>) =>
        LET r == parseLinePlain(last.old, ScannerText(last.wrote[1]))
            got == TagsExport(r.S)
        IN  /\ r.err = ""
            /\ got[KMsg] = <<last.s>>
            /\ \A k \in DOMAIN last.before : k \in DOMAIN got /\ got[k] = last.before[k]

----------------------------------------------------------------------------
(* Goroutines: the steps of the methods, the mutexes and the sink *)

\* a step of a method on logger l: Lock and Unlock of l.mu, the read or
\* the write of field f of l, the Write to the sink l.out, the struct copy
\* of l into logger f, the start of goroutine f
Op(op, l, f) == [op |-> op, l |-> l, f |-> f]

\* the fields of a Logger besides its mutex
Fields == {"tags", "levelset", "level", "levelTag", "standardLevel", "out", "params"}

\* Logger.Loutput in plain format at no level: the flags are read, the mutex
\* is taken, the line is rendered from the params and the tags and handed to
\* out.Write, the mutex is released
LoutputOps(l) ==
    <<Op("Read", l, "params"), Op("Lock", l, ""), Op("Read", l, "params"),
      Op("Read", l, "levelset"), Op("Read", l, "level"), Op("Read", l, "tags"),
      Op("Read", l, "out"), Op("Sink", l, ""), Op("Unlock", l, "")>>

\* Logger.Output, and Println which calls it
OutputOps(l) == <<Op("Read", l, "standardLevel")>> \o LoutputOps(l)

\* a method that sets field f under the mutex: SetPrefix, SetFlags, AddTag
LockedSetOps(l, f) == <<Op("Lock", l, ""), Op("Write", l, f), Op("Unlock", l, "")>>

\* Logger.Copy: under this.mu the struct is copied, its mutex with it, the
\* tags are read, and the mutex of the copy and this.mu are released
CopyOps(l, c) ==
    <<Op("Lock", l, ""), Op("CopyStruct", l, c), Op("Read", l, "tags"),
      Op("Unlock", c, ""), Op("Unlock", l, "")>>

\* the methods of levels.go
LevelOps(m, l) ==
    CASE m = "DefineLevels" -> <<Op("Write", l, "levelset"), Op("Write", l, "level")>>
      [] m = "SetLevel" -> <<Op("Read", l, "levelset"), Op("Write", l, "level")>>
      [] m = "GetLevel" -> <<Op("Read", l, "level")>>
      [] m = "SetLevelTag" -> <<Op("Write", l, "levelTag")>>
      [] m = "SetStandardLevel" -> <<Op("Write", l, "standardLevel")>>

\* the lines a goroutine of TestRace writes
MaxWrites == 1

\* the copies TestRace takes
MaxCopies == 2

\* for i := 0; i < n; i++ { l.Println("line") }
RECURSIVE PrintlnLoop(_, _)
PrintlnLoop(l, n) == IF n = 0 THEN <<>> ELSE OutputOps(l) \o PrintlnLoop(l, n - 1)

\* the step goroutine g is about to take, if any
HasNext(g) == p.prog[g] # <<>>

NextOp(g) == Head(p.prog[g])

Advance(g) == [p EXCEPT !.prog[g] = Tail(@)]

\* sync.Mutex.Lock: taken when the mutex is free
Lock(g) ==
    /\ HasNext(g) /\ NextOp(g).op = "Lock"
    /\ p.mu[NextOp(g).l] = ""
    /\ p' = [Advance(g) EXCEPT !.mu[NextOp(g).l] = g]
    /\ last' = [NoCall EXCEPT !.op = "Lock", !.who = g]
    /\ UNCHANGED <<heap, t, lg>>

\* sync.Mutex.Unlock
Unlock(g) ==
    /\ HasNext(g) /\ NextOp(g).op = "Unlock"
    /\ p' = [Advance(g) EXCEPT !.mu[NextOp(g).l] = ""]
    /\ last' = [NoCall EXCEPT !.op = "Unlock", !.who = g]
    /\ UNCHANGED <<heap, t, lg>>

\* the read or the write of a field, or the Write to the sink
Access(g) ==
    /\ HasNext(g) /\ NextOp(g).op \in {"Read", "Write", "Sink"}
    /\ p' = Advance(g)
    /\ last' = [NoCall EXCEPT !.op = NextOp(g).op, !.who = g]
    /\ UNCHANGED <<heap, t, lg>>

\* tl := *this and the copy of the tags: the new logger has the fields of
\* the source, and its mutex is held as the mutex of the source is
CopyStruct(g) ==
    /\ HasNext(g) /\ NextOp(g).op = "CopyStruct"
    /\ LET l == NextOp(g).l
           c == NextOp(g).f
       IN  /\ lg' = MapSet(lg, c, [lg[l] EXCEPT !.tags = [k \in DOMAIN lg[l].tags |-> lg[l].tags[k]]])
           /\ p' = [Advance(g) EXCEPT !.mu = MapSet(@, c, p.mu[l])]
    /\ last' = [NoCall EXCEPT !.op = "CopyStruct", !.who = g]
    /\ UNCHANGED <<heap, t>>

\* go func(l *Logger): the goroutine starts with its loop of Println calls
Go(g) ==
    /\ HasNext(g) /\ NextOp(g).op = "Go"
    /\ p' = [Advance(g) EXCEPT !.prog[NextOp(g).f] = PrintlnLoop(NextOp(g).l, MaxWrites)]
    /\ last' = [NoCall EXCEPT !.op = "Go", !.who = g]
    /\ UNCHANGED <<heap, t, lg>>

\* what a step reaches: a field of a logger, or the sink behind l.out
Location(o) == IF o.op = "Sink" THEN <<"sink", lg[o.l].out>> ELSE <<o.l, o.f>>

Locations(o) ==
    IF o.op = "CopyStruct" THEN {<<o.l, f>> : f \in Fields}
    ELSE IF o.op \in {"Read", "Write", "Sink"} THEN {Location(o)}
    ELSE {}

Writes(o) == o.op \in {"Write", "Sink"}

\* goroutines g1 and g2 are both about to reach one location, one of them
\* writing, with nothing that orders the two steps
Racing(g1, g2) ==
    /\ g1 # g2
    /\ HasNext(g1) /\ HasNext(g2)
    /\ Locations(NextOp(g1)) \cap Locations(NextOp(g2)) # {}
    /\ Writes(NextOp(g1)) \/ Writes(NextOp(g2))

\* the names of the copies, which are the names of their goroutines too
CopyNames == <<"C1", "C2", "C3", "C4">>

\* the loop of TestRace over the copies, from copy i on: a copy is taken,
\* its prefix set, and its goroutine started
RECURSIVE MainProg(_)
MainProg(i) ==
    IF i > MaxCopies \/ i > Len(CopyNames) THEN <<>>
    ELSE CopyOps("L", CopyNames[i]) \o LockedSetOps(CopyNames[i], "params")
         \o <<Op("Go", CopyNames[i], CopyNames[i])>> \o MainProg(i + 1)

\* TestRace: the goroutine of lg is running, main is about to take copies
InitRace ==
    /\ heap = EmptyMap
    /\ t = EmptyMap
    /\ lg = [l \in {"L"} |-> New("out", <<>>, 0)]
    /\ p = [prog |-> [g \in {"main", "L"} \cup Range(CopyNames) |->
                        IF g = "main" THEN MainProg(1)
                        ELSE IF g = "L" THEN PrintlnLoop("L", MaxWrites) ELSE <<>>],
            mu |-> [l \in {"L"} |-> ""]]
    /\ last = NoCall

NextRace ==
    \/ \E g \in DOMAIN p.prog : Lock(g)
    \/ \E g \in DOMAIN p.prog : Unlock(g)
    \/ \E g \in DOMAIN p.prog : Access(g)
    \/ \E g \in DOMAIN p.prog : CopyStruct(g)
    \/ \E g \in DOMAIN p.prog : Go(g)

SpecRace == InitRace /\ [][NextRace]_vars

\* C13: a Logger and its copies log from goroutines of their own while
\* copies are taken, without a data race: no two goroutines are about to
\* Write to the shared sink at once, and none reads a field of a logger that
\* another is about to write.
C13_NoDataRace ==
    \A g1, g2 \in DOMAIN p.prog : ~Racing(g1, g2)

----------------------------------------------------------------------------
(* Goroutines that call the methods of one logger *)

Methods ==
    {"Output", "Loutput", "SetPrefix", "SetFlags", "AddTag",
     "DefineLevels", "SetLevel", "GetLevel", "SetLevelTag", "SetStandardLevel"}

\* the steps of method m on logger l
MethodOps(m, l) ==
    CASE m = "Output" -> OutputOps(l)
      [] m = "Loutput" -> LoutputOps(l)
      [] m \in {"SetPrefix", "SetFlags"} -> LockedSetOps(l, "params")
      [] m = "AddTag" -> LockedSetOps(l, "tags")
      [] OTHER -> LevelOps(m, l)

\* goroutine g, between two calls, calls method m of logger l
Call(g, m, l) ==
    /\ ~HasNext(g)
    /\ p' = [p EXCEPT !.prog[g] = MethodOps(m, l)]
    /\ last' = [NoCall EXCEPT !.op = m, !.who = g]
    /\ UNCHANGED <<heap, t, lg>>

InitMutex ==
    /\ heap = EmptyMap
    /\ t = EmptyMap
    /\ lg = [l \in {"L"} |-> New("out", <<>>, 0)]
    /\ p = [prog |-> [g \in {"G1", "G2"} |-> <<>>], mu |-> [l \in {"L"} |-> ""]]
    /\ last = NoCall

NextMutex ==
    \/ \E g \in DOMAIN p.prog, m \in Methods : Call(g, m, "L")
    \/ \E g \in DOMAIN p.prog : Lock(g)
    \/ \E g \in DOMAIN p.prog : Unlock(g)
    \/ \E g \in DOMAIN p.prog : Access(g)

SpecMutex == InitMutex /\ [][NextMutex]_vars

\* C14: every method reads and writes the fields of the logger only while
\* it holds the logger's mutex, so that no two goroutines are about to
\* reach one field with one of them writing.
C14_FieldsUnderMutex ==
    /\ \A g \in DOMAIN p.prog :
          (HasNext(g) /\ NextOp(g).op \in {"Read", "Write"}) => p.mu[NextOp(g).l] = g
    /\ \A g1, g2 \in DOMAIN p.prog :
          ~(Racing(g1, g2) /\ NextOp(g1).op # "Sink" /\ NextOp(g2).op # "Sink")

----------------------------------------------------------------------------
(* Properties of Loutput on the tag store, under SpecLevel *)

\* C15: a Loutput call in plain format leaves the tag store with the keys
\* and values it had before the call, a value stored under the level tag
\* key among them.
C15_PlainLoutputKeepsStore ==
    (last.op = "Loutput" /\ last.old.Format = FormatPlain) =>
        TagsExport(LoggerS(last.who)) = last.before

----------------------------------------------------------------------------
(* Properties of the timestamp, under Spec *)

\* "timestamp": as a JSON record shows the key
TimestampField == JSONString(KTimestamp) \o <<":">>

\* C16: a record written while the timestamp layout resolves to the empty
\* string has no timestamp: a plain line goes from the prefix straight to
\* the tags and the message, a JSON record has no "timestamp" field.
C16_EmptyLayoutNoTimestamp ==
    (last.op = "Output" /\ last.wrote # <<>> /\ calcTsFormat(last.old) = <<>>) =>
        IF last.old.Format = FormatJSON
        THEN ~HasSub(last.wrote[1], TimestampField)
        ELSE \E toks \in Ascending(TokensOf(last.before, DOMAIN last.before)) :
                last.wrote[1] = PlainLine(last.old.Prefix, <<>>, toks, last.s)

\* C17: Representation invariant of the tag store. Every key of the store
\* holds a single string or a sequence of at least two strings, never an
\* empty sequence, so that Get always finds a first element.
C17_StringOrTwoPlus ==
    \A k \in DOMAIN t :
        \/ t[k].kind = "string"
        \/ /\ t[k].kind = "slice"
           /\ t[k].len >= 2
           /\ t[k].len <= Len(heap[t[k].arr])

\* a Pop took a key from two values to one, which is held as a single
\* string
C17_Witness ==
    /\ last.op = "Pop"
    /\ last.key \in DOMAIN last.before
    /\ Len(last.before[last.key]) = 2
    /\ last.key \in DOMAIN t
    /\ t[last.key].kind = "string"
    /\ TagsGet(Cur, last.key) = last.before[last.key][1]

----------------------------------------------------------------------------
(* encoding/json: Unmarshal of a line into Tags *)

\* a decoding that failed
NoJSON == [ok |-> FALSE, val |-> <<>>, next |-> 0]

\* the characters of a string from place i, behind the opening quote, up to
\* the closing quote, the escapes undone
RECURSIVE DecodeChars(_, _, _)
DecodeChars(s, i, acc) ==
    IF i > Len(s) THEN NoJSON
    ELSE IF s[i] = "\"" THEN [ok |-> TRUE, val |-> acc, next |-> i + 1]
    ELSE IF s[i] = "\\"
         THEN IF i + 1 > Len(s) THEN NoJSON
              ELSE IF s[i + 1] = "n" THEN DecodeChars(s, i + 2, Append(acc, "\n"))
              ELSE IF s[i + 1] \in {"\"", "\\"} THEN DecodeChars(s, i + 2, Append(acc, s[i + 1]))
              ELSE NoJSON
    ELSE IF s[i] = "\n" THEN NoJSON
    ELSE DecodeChars(s, i + 1, Append(acc, s[i]))

\* a JSON string at place i
DecodeString(s, i) ==
    IF i <= Len(s) /\ s[i] = "\"" THEN DecodeChars(s, i + 1, <<>>) ELSE NoJSON

\* the one element of a set of one element: The({F(x) : x \in {e}}) is F(e)
\* with e worked out once
The(S) == CHOOSE x \in S : TRUE

\* the elements of a JSON array of strings from place i, up to the bracket
\* that closes it
RECURSIVE DecodeElems(_, _, _)
DecodeElems(s, i, acc) ==
    The({ IF ~e.ok \/ e.next > Len(s) THEN NoJSON
          ELSE IF s[e.next] = "," THEN DecodeElems(s, e.next + 1, Append(acc, e.val))
          ELSE IF s[e.next] = "]" THEN [ok |-> TRUE, val |-> Append(acc, e.val), next |-> e.next + 1]
          ELSE NoJSON : e \in {DecodeString(s, i)} })

\* a JSON value at place i as Unmarshal stores it in a map[string]interface{}:
\* a string as a string, an array as a []interface{}
DecodeValue(s, i) ==
    IF i > Len(s) THEN NoJSON
    ELSE IF s[i] = "\"" THEN
        The({ IF e.ok THEN [e EXCEPT !.val = StrVal(e.val)] ELSE NoJSON :
              e \in {DecodeString(s, i)} })
    ELSE IF s[i] = "[" THEN
        IF i + 1 <= Len(s) /\ s[i + 1] = "]"
        THEN [ok |-> TRUE, val |-> IfaceVal(<<>>), next |-> i + 2]
        ELSE The({ IF a.ok THEN [a EXCEPT !.val = IfaceVal(a.val)] ELSE NoJSON :
                   a \in {DecodeElems(s, i + 1, <<>>)} })
    ELSE NoJSON

\* the member of a JSON object behind its key k, and the members after it
RECURSIVE DecodeMembers(_, _, _)
DecodeMember(s, k, v, acc) ==
    IF ~v.ok \/ v.next > Len(s) THEN NoJSON
    ELSE IF s[v.next] = "," THEN DecodeMembers(s, v.next + 1, MapSet(acc, k.val, v.val))
    ELSE IF s[v.next] = "}" /\ v.next = Len(s)
         THEN [ok |-> TRUE, val |-> MapSet(acc, k.val, v.val), next |-> v.next + 1]
    ELSE NoJSON

\* the members of a JSON object from place i, up to the brace that closes
\* it at the end of the text
DecodeMembers(s, i, acc) ==
    The({ IF ~k.ok \/ k.next > Len(s) \/ s[k.next] # ":" THEN NoJSON
          ELSE The({ DecodeMember(s, k, v, m) : v \in {DecodeValue(s, k.next + 1)}, m \in {acc} })
          : k \in {DecodeString(s, i)} })

\* json.Unmarshal([]byte(line), &tags) for an object of strings and arrays
\* of strings, written without spaces; any other text is an error
Unmarshal(line) ==
    IF Len(line) < 2 \/ line[1] # "{" THEN NoJSON
    ELSE IF line = <<"{", "}">> THEN [ok |-> TRUE, val |-> EmptyMap, next |-> 3]
    ELSE DecodeMembers(line, 2, EmptyMap)

----------------------------------------------------------------------------
(* Parser.ParseInput, one step per line read *)

\* Parser.mergeLineJSON: what the line gave (its tags without msg and
\* timestamp, as Export hands them on) and the aggregate after it
mergeLineJSON(line) ==
    The({ IF ~r.ok THEN [err |-> "invalid character", seen |-> EmptyMap, S |-> ParserS]
          ELSE The({ [err |-> "", seen |-> seen, S |-> MergeTags(ParserS, seen)] :
                     seen \in {TagsExport(TagsDel(TagsDel([h |-> EmptyMap, t |-> r.val], KMsg),
                                                  KTimestamp))} })
          : r \in {Unmarshal(line)} })

\* the switch of Parser.ParseLine
mergeLine(line) ==
    IF p.params.Format = FormatPlain THEN mergeLinePlain(line)
    ELSE IF p.params.Format = FormatJSON THEN mergeLineJSON(line)
    ELSE [err |-> "Invalid format", seen |-> EmptyMap, S |-> ParserS]

\* a parser at the start of ParseInput(input)
NewInput(params, input) ==
    [params |-> params, tags |-> EmptyMap, all |-> input, input |-> input,
     merged |-> <<>>, pc |-> "scan", ret |-> "running"]

\* an iteration of the loop of parseInputPlain or parseInputJSON: the line
\* is handed to ParseLine; parseInputJSON returns its error, parseInputPlain
\* drops it
ScanInput ==
    /\ p.pc = "scan"
    /\ p.input # <<>>
    /\ \E line \in {Head(p.input)} : \E r \in {mergeLine(line)} :
       \E stop \in {r.err # "" /\ p.params.Format = FormatJSON} :
           /\ p' = [p EXCEPT !.tags = r.S.t, !.input = Tail(p.input),
                             !.merged = IF r.err = "" THEN Append(@, line) ELSE @,
                             !.pc = IF stop THEN "done" ELSE "scan",
                             !.ret = IF stop THEN r.err ELSE @]
           /\ heap' = Collect(r.S.h, Arrays(r.S.t))
           /\ last' = [NoCall EXCEPT !.op = "ScanInput", !.s = line, !.err = (r.err # ""),
                                     !.before = TagsExport(ParserS), !.ret = r.seen]
    /\ UNCHANGED <<t, lg>>

\* the end of the input: return scanner.Err(), which is nil
EndInput ==
    /\ p.pc = "scan"
    /\ p.input = <<>>
    /\ p' = [p EXCEPT !.pc = "done", !.ret = "nil"]
    /\ last' = [NoCall EXCEPT !.op = "EndInput", !.before = TagsExport(ParserS)]
    /\ UNCHANGED <<heap, t, lg>>

\* the lines of the plain inputs: "[k=a] m", "[k=d]", "[j=b] m"
PlainInputLines ==
    { <<"[", "k", "=", "a", "]", " ", "m">>,
      <<"[", "k", "=", "d", "]">>,
      <<"[", "j", "=", "b", "]", " ", "m">> }

\* the lines of the JSON inputs: {"filters":["vol","delay"],"job_id":"1","msg":"m"},
\* {"job_id":"2","timestamp":"7/9"}, x
JSONInputLines ==
    { <<"{", "\"", "f", "i", "l", "t", "e", "r", "s", "\"", ":", "[", "\"", "v", "o", "l", "\"", ",",
        "\"", "d", "e", "l", "a", "y", "\"", "]", ",", "\"", "j", "o", "b", "_", "i", "d", "\"", ":",
        "\"", "1", "\"", ",", "\"", "m", "s", "g", "\"", ":", "\"", "m", "\"", "}">>,
      <<"{", "\"", "j", "o", "b", "_", "i", "d", "\"", ":", "\"", "2", "\"", ",",
        "\"", "t", "i", "m", "e", "s", "t", "a", "m", "p", "\"", ":", "\"", "7", "/", "9", "\"", "}">>,
      <<"x">> }

InitInput ==
    /\ heap = EmptyMap
    /\ t = EmptyMap
    /\ lg = EmptyMap
    /\ \/ \E n \in 0..MaxLines : \E input \in [1..n -> PlainInputLines] :
             p = NewInput([DefaultParams EXCEPT !.TimestampFormat = <<>>, !.Flag = 0], input)
       \/ \E n \in 0..MaxLines : \E input \in [1..n -> JSONInputLines] :
             p = NewInput([DefaultParams EXCEPT !.Format = FormatJSON], input)
    /\ last = NoCall

NextInput == ScanInput \/ EndInput

SpecInput == InitInput /\ [][NextInput]_vars

\* the values of a decoded JSON member: the string, or the elements of the
\* array
MemberValues(v) == IF v.kind = "string" THEN <<v.s>> ELSE v.s

\* C18: in JSON format ParseLine merges every tag of the decoded object
\* other than "msg" and "timestamp" into the aggregate, a JSON string and a
\* JSON array of strings alike: every value of every such tag is among the
\* values the aggregate has for the key.
C18_JSONTagsMerged ==
    (last.op = "ScanInput" /\ p.params.Format = FormatJSON /\ ~last.err) =>
        LET d == Unmarshal(last.s).val
            agg == TagsExport(ParserS)
        IN  /\ KMsg \notin DOMAIN agg
            /\ KTimestamp \notin DOMAIN agg
            /\ \A k \in (DOMAIN d) \ {KMsg, KTimestamp} :
                  /\ k \in DOMAIN agg
                  /\ Range(MemberValues(d[k])) \subseteq Range(agg[k])

\* line fails to parse under the parser's params
FailsToParse(line) == mergeLine(line).err # ""

\* C19: ParseInput stops at the first line that fails to parse and returns
\* its error, in plain and in JSON format: when it has returned, the lines
\* merged are those before the first failing line, and the error is
\* returned if there is such a line.
C19_StopsAtFirstFailure ==
    p.pc = "done" =>
        LET bad == {i \in 1..Len(p.all) : FailsToParse(p.all[i])} IN
        IF bad = {} THEN p.ret = "nil" /\ p.merged = p.all
        ELSE LET first == CHOOSE i \in bad : \A j \in bad : i <= j
             IN  /\ p.ret \notin {"nil", "running"}
                 /\ p.merged = SubSeq(p.all, 1, first - 1)

----------------------------------------------------------------------------
(* Writers that fail: a logger and a converter *)

\* the errors that the calls of Write on the converter's output return
SinkErrors == {"", "short write"}

\* the most calls of Write whose result is chosen; the calls after them
\* return nil
MaxFails == 2

\* the lines of the inputs: "A [k=a] m", "x"
SinkLines ==
    { <<"A", " ", "[", "k", "=", "a", "]", " ", "m">>,
      <<"x">> }

InitSink ==
    /\ heap = EmptyMap
    /\ t = EmptyMap
    /\ lg = [l \in {"L"} |-> New("out", <<>>, 0)]
    /\ \E n \in 0..MaxLines, m \in 0..MaxFails :
       \E input \in [1..n -> SinkLines], sink \in [1..m -> SinkErrors] :
          p = [NewStream([DefaultParams EXCEPT !.TimestampFormat = <<>>, !.Flag = 0,
                                               !.Prefix = <<"A", " ">>], input)
               EXCEPT !.sink = sink]
    /\ last = NoCall

NextSink ==
    \/ ScanFirst
    \/ EndFirst
    \/ ScanSecond
    \/ EndSecond
    \/ \E format \in {FormatPlain, FormatJSON} : SetFormat("L", format)
    \/ \E werr \in BOOLEAN : Output("L", <<"m">>, Now, werr)
    \/ \E level \in {<<"d", "e", "b", "u", "g">>, <<"e", "r", "r", "o", "r">>}, werr \in BOOLEAN :
          Loutput("L", level, <<"m">>, Now, werr)

SpecSink == InitSink /\ [][NextSink]_vars

\* C22: a failed write to the sink is reported by the operation that made
\* it.  Loutput and Output make one Write per record, none for a discarded
\* one, and return the error of that Write; PlainToJSON makes no more than
\* one Write per record, and when one of them has failed PlainToJSON returns
\* an error.
C22_WriteFailureReported ==
    /\ last.op \in {"Output", "Loutput"} =>
          /\ Len(last.wrote) <= 1
          /\ last.wrote = <<>> <=> (last.level # <<>> /\ Less(lg.L.levelset, last.level, lg.L.level))
          /\ last.wrote = <<>> => ~last.err
    /\ HeaderIdx(p.all) # {} => Len(p.out) + Len(p.werr) <= Cardinality(HeaderIdx(p.all))
    /\ (p.pc = "done" /\ p.werr # <<>>) => p.ret # "nil"

----------------------------------------------------------------------------
(* Parser.parseLinePlain on one line *)

\* the most words a line has
MaxWords == 3

\* the words of the lines: "[job=1]", "[x]", "array[0]", "is bad", "m"
LineWords ==
    { <<"[", "j", "o", "b", "=", "1", "]">>,
      <<"[", "x", "]">>,
      <<"a", "r", "r", "a", "y", "[", "0", "]">>,
      <<"i", "s", " ", "b", "a", "d">>,
      <<"m">> }

\* the texts behind the timestamp: up to MaxWords words, a space between them
LineTexts == UNION {{Join(ws, <<" ">>) : ws \in [1..n -> LineWords]} : n \in 1..MaxWords}

\* a parser before parseLinePlain(line, "")
NewLine(params, line) ==
    [params |-> params, tags |-> EmptyMap, line |-> line, pc |-> "line", err |-> "",
     parsed |-> EmptyMap]

\* tags, err := this.parseLinePlain(line, ""): the error and the tags
\* returned, as Export gives them
ParsePlain ==
    /\ p.pc = "line"
    /\ \E r \in {parseLinePlain(p.params, p.line)} :
          /\ p' = [p EXCEPT !.pc = "parsed", !.err = r.err, !.parsed = TagsExport(r.S)]
          /\ last' = [NoCall EXCEPT !.op = "parseLinePlain", !.s = p.line, !.err = (r.err # "")]
    /\ UNCHANGED <<heap, t, lg>>

\* lines without a timestamp, and lines behind the timestamp of Now in the
\* standard layout
InitLine ==
    /\ heap = EmptyMap
    /\ t = EmptyMap
    /\ lg = EmptyMap
    /\ \E text \in LineTexts :
          \/ p = NewLine([DefaultParams EXCEPT !.TimestampFormat = <<>>, !.Flag = 0], text)
          \/ p = NewLine(DefaultParams, TimeFormat(Now, TimestampFormatStd) \o <<" ">> \o text)
    /\ last = NoCall

NextLine == ParsePlain

SpecLine == InitLine /\ [][NextLine]_vars

\* the place of the first "]" of text from place j on, 0 when there is none
RECURSIVE CloseAt(_, _)
CloseAt(text, j) ==
    IF j > Len(text) THEN 0 ELSE IF text[j] = "]" THEN j ELSE CloseAt(text, j + 1)

\* the run of bracket tokens at the start of text, and the message: what
\* follows the run, behind the character that separates it from the last
\* token
RECURSIVE LeadingRun(_, _)
LeadingRun(text, tokens) ==
    IF text # <<>> /\ Head(text) = "[" /\ CloseAt(text, 2) > 0
    THEN LeadingRun(SubSeq(text, CloseAt(text, 2) + 2, Len(text)),
                    Append(tokens, SubSeq(text, 2, CloseAt(text, 2) - 1)))
    ELSE [tagTokens |-> tokens, msg |-> text]

\* the text of a line behind its timestamp
BehindTimestamp(params, line) ==
    IF calcTsFormat(params) = <<>> THEN line
    ELSE TrimLeftSpace(TrimPrefix(line, TimestampText(calcTsFormat(params), line)))

\* C23: parseLinePlain takes tag tokens only from the run of bracket tokens
\* at the start of the text behind the timestamp, and the message is
\* everything behind that run: for a line with a message, the tags returned
\* are those of the tokens of the run, and msg is the text behind it, later
\* brackets included.
C23_LeadingTokensOnly ==
    LET run == LeadingRun(BehindTimestamp(p.params, p.line), <<>>)
        S0 == [h |-> EmptyMap, t |-> EmptyMap]
        S1 == IF calcTsFormat(p.params) = <<>> THEN S0
              ELSE TagsAdd(S0, KTimestamp, <<TimestampText(calcTsFormat(p.params), p.line)>>)
    IN  (p.pc = "parsed" /\ run.msg # <<>>) =>
            /\ p.err = ""
            /\ p.parsed = TagsExport(AddTokens(TagsAdd(S1, KMsg, <<run.msg>>), run.tagTokens))

----------------------------------------------------------------------------
(* The MultiLogger *)

\* NewMultiLogger(l, m): the loggers, in the order of the loop
MultiLoggers == <<"L", "M">>

\* the error that a failed Write on the writer `out` returns; nil is <<>>
WriteError(out) == <<out>>

\* the loop of MultiLogger.Output (std: each logger with its own standard
\* level) and of MultiLogger.Loutput over the loggers ls, which are
\* distinct: the Write of logger l returns werrs[l], its plain format loop
\* visits the keys in orders[l].  acc holds the loggers, anyErr, and as a
\* record of the calls the error each call returned and the Writes made
RECURSIVE MultiLoop(_, _, _, _, _, _, _, _)
MultiLoop(ls, std, level, s, now, werrs, orders, acc) ==
    IF ls = <<>> THEN acc
    ELSE LET l == Head(ls)
             lvl == IF std THEN lg[l].standardLevel ELSE level
         IN  IF Discarded(l, lvl)
             THEN MultiLoop(Tail(ls), std, level, s, now, werrs, orders,
                            [acc EXCEPT !.errs = Append(@, <<>>)])
             ELSE \* Loutput stores strings only: no array is made
                  LET r == Render(l, lvl, s, now, orders[l])
                  IN  MultiLoop(Tail(ls), std, level, s, now, werrs, orders,
                                [lg |-> MapSet(acc.lg, l, [lg[l] EXCEPT !.tags = r.S.t]),
                                 anyErr |-> IF werrs[l] # <<>> THEN werrs[l] ELSE acc.anyErr,
                                 errs |-> Append(acc.errs, werrs[l]),
                                 wrote |-> Append(acc.wrote, [out |-> lg[l].out, b |-> r.b,
                                                              err |-> werrs[l]])])

\* a call of MultiLogger.Output or MultiLogger.Loutput
MultiCall(op, std, level, s, now) ==
    \E werrs \in [Range(MultiLoggers) -> {<<>>} \cup {WriteError(lg[l].out) : l \in Range(MultiLoggers)}] :
    \E orders \in [Range(MultiLoggers) ->
                      UNION {RenderOrders(l, IF std THEN lg[l].standardLevel ELSE level) :
                             l \in Range(MultiLoggers)}] :
       /\ \A l \in Range(MultiLoggers) :
             /\ werrs[l] \in {<<>>, WriteError(lg[l].out)}
             /\ orders[l] \in RenderOrders(l, IF std THEN lg[l].standardLevel ELSE level)
       /\ \E acc \in {MultiLoop(MultiLoggers, std, level, s, now, werrs, orders,
                                [lg |-> lg, anyErr |-> <<>>, errs |-> <<>>, wrote |-> <<>>])} :
             /\ lg' = acc.lg
             /\ heap' = Collect(heap, LiveArrays(acc.lg))
             /\ last' = [NoCall EXCEPT !.op = op, !.level = level, !.s = s, !.vals = acc.errs,
                                       !.ret = acc.anyErr, !.wrote = acc.wrote,
                                       !.err = (acc.anyErr # <<>>)]
       /\ UNCHANGED <<t, p>>

\* MultiLogger.Output
MultiOutput(s, now) == MultiCall("MultiLogger.Output", TRUE, <<>>, s, now)

\* MultiLogger.Loutput
MultiLoutput(level, s, now) == MultiCall("MultiLogger.Loutput", FALSE, level, s, now)

\* the levels of the calls: "debug", "info", "error"
MultiLevels == {<<"d", "e", "b", "u", "g">>, <<"i", "n", "f", "o">>, <<"e", "r", "r", "o", "r">>}

InitMulti ==
    /\ heap = EmptyMap
    /\ t = EmptyMap
    /\ lg = [l \in Range(MultiLoggers) |->
                IF l = "L" THEN New("o1", <<>>, 0) ELSE New("o2", <<"A", " ">>, 0)]
    /\ p = EmptyMap
    /\ last = NoCall

NextMulti ==
    \/ \E l \in Range(MultiLoggers), lvl \in MultiLevels : SetLevel(l, lvl)
    \/ \E l \in Range(MultiLoggers), format \in {FormatPlain, FormatJSON} : SetFormat(l, format)
    \/ MultiOutput(<<"m">>, Now)
    \/ \E level \in MultiLevels : MultiLoutput(level, <<"m">>, Now)

SpecMulti == InitMulti /\ [][NextMulti]_vars

\* the first error of a sequence of errors, nil when there is none
RECURSIVE FirstError(_)
FirstError(errs) ==
    IF errs = <<>> THEN <<>>
    ELSE IF Head(errs) # <<>> THEN Head(errs) ELSE FirstError(Tail(errs))

\* C24: MultiLogger.Output and MultiLogger.Loutput call every logger, in
\* turn, whatever the earlier ones returned; every logger that does not
\* discard the record has made its Write, and what a logger wrote stays
\* written; the error returned is the first that a logger returned, nil when
\* none did.
C24_FirstErrorReturned ==
    last.op \in {"MultiLogger.Output", "MultiLogger.Loutput"} =>
        /\ Len(last.vals) = Len(MultiLoggers)
        /\ \A i \in 1..Len(MultiLoggers) :
              LET l == MultiLoggers[i]
                  lvl == IF last.op = "MultiLogger.Output" THEN lg[l].standardLevel ELSE last.level
              IN  ~Discarded(l, lvl) =>
                     \E j \in 1..Len(last.wrote) :
                        last.wrote[j].out = lg[l].out /\ last.wrote[j].err = last.vals[i]
        /\ last.ret = FirstError(last.vals)

====
